---- MODULE Spec2Model ----
(***************************************************************************)
(* SmartChart connector engine: the connector registry, the per-shape      *)
(* reference and handler lists, orthogonal routing, waypoint adjustments,  *)
(* the drag-to-connect interaction and the undo/redo history, modelled     *)
(* from src/js/themes.js (the latest Connector / ConnectorManager          *)
(* classes), src/unnamed/part_002 (canvas event handlers) and              *)
(* src/unnamed/part_005 (StateManager).                                    *)
(*                                                                         *)
(* Coordinates are canvas units.  Shapes are placed on the 20-unit grid    *)
(* with sides that are multiples of 40, so every connection point, stub    *)
(* and route coordinate the code computes is an integer and \div is exact. *)
(* Only the centre of a waypoint control, the middle of its segment, can   *)
(* fall on a half unit; it is rounded down, and the code reads from a      *)
(* control only the coordinate across its segment, which is exact.         *)
(* Normalised connection points {x: 0.25, y: 0} are kept in quarters:      *)
(* [x |-> 1, y |-> 0].                                                     *)
(*                                                                         *)
(* Scope: rectangular shapes, one active object at a time, the orthogonal  *)
(* routing style, the grid hidden (its initial state).  A rotation fires   *)
(* the same update handler as a move or a scale and is not a separate      *)
(* action.  Objects that have left the canvas stay in shapes / conns, as   *)
(* they stay reachable from the registry and from each other in the code.  *)
(***************************************************************************)
EXTENDS Integers, Sequences, FiniteSets, TLC

(* ---------------------------------------------------------------------- *)
(* Small helpers                                                           *)
(* ---------------------------------------------------------------------- *)
Abs(n) == IF n < 0 THEN -n ELSE n

Pt(px, py) == [x |-> px, y |-> py]

Last(s) == s[Len(s)]

(* A value is named by passing it to an operator: Let(e, LAMBDA x : b) is  *)
(* b with x standing for the value of e.                                   *)
Let(e, B(_)) == B(e)

(* The map f with key k set to v: obj[k] = v, or map.set(k, v).            *)
Put(f, k, v) == (k :> v) @@ f

(* A path string "M x y L x y ..." is kept as its sequence of commands.   *)
Cmd(c, px, py) == [cmd |-> c, x |-> px, y |-> py]

(* `M ${a.x} ${a.y} L ${b.x} ${b.y} ...` built from a list of points.      *)
PathString(pts) ==
    [i \in 1..Len(pts) |-> Cmd(IF i = 1 THEN "M" ELSE "L", pts[i].x, pts[i].y)]

(* ---------------------------------------------------------------------- *)
(* Program constants                                                       *)
(* ---------------------------------------------------------------------- *)
STUB_LENGTH == 20

AlignmentTolerance == 30

MARGIN == 10

OFFSET == 50

GRID_SIZE == 20

MaxStackSize == 50

BaseDirs == {"top", "right", "bottom", "left"}

(* pointMap of getFixedPointFromDirection, in quarters of the side.        *)
PointMap ==
    [d \in {"top-left", "top", "top-right", "right-top", "right", "right-bottom",
            "bottom-left", "bottom", "bottom-right", "left-top", "left", "left-bottom"} |->
        CASE d = "top-left"     -> Pt(1, 0)
          [] d = "top"          -> Pt(2, 0)
          [] d = "top-right"    -> Pt(3, 0)
          [] d = "right-top"    -> Pt(4, 1)
          [] d = "right"        -> Pt(4, 2)
          [] d = "right-bottom" -> Pt(4, 3)
          [] d = "bottom-left"  -> Pt(1, 4)
          [] d = "bottom"       -> Pt(2, 4)
          [] d = "bottom-right" -> Pt(3, 4)
          [] d = "left-top"     -> Pt(0, 1)
          [] d = "left"         -> Pt(0, 2)
          [] d = "left-bottom"  -> Pt(0, 3)]

AllDirs == DOMAIN PointMap

(* ---------------------------------------------------------------------- *)
(* Connection points and directions                                        *)
(* ---------------------------------------------------------------------- *)
(* Connector.getFixedConnectionPoint: bounds.left + bounds.width * point.x *)
getFixedConnectionPoint(b, point) ==
    Pt(b.left + (b.width * point.x) \div 4, b.top + (b.height * point.y) \div 4)

getBaseDirection(direction) ==
    CASE direction \in {"top", "top-left", "top-right"}          -> "top"
      [] direction \in {"bottom", "bottom-left", "bottom-right"} -> "bottom"
      [] direction \in {"left", "left-top", "left-bottom"}       -> "left"
      [] direction \in {"right", "right-top", "right-bottom"}    -> "right"
      [] OTHER -> direction

getDirectionFromPoint(point) ==
    IF point.y = 0 THEN
        (IF point.x = 1 THEN "top-left" ELSE IF point.x = 3 THEN "top-right" ELSE "top")
    ELSE IF point.y = 4 THEN
        (IF point.x = 1 THEN "bottom-left" ELSE IF point.x = 3 THEN "bottom-right" ELSE "bottom")
    ELSE IF point.x = 0 THEN
        (IF point.y = 1 THEN "left-top" ELSE IF point.y = 3 THEN "left-bottom" ELSE "left")
    ELSE IF point.x = 4 THEN
        (IF point.y = 1 THEN "right-top" ELSE IF point.y = 3 THEN "right-bottom" ELSE "right")
    ELSE "right"

(* ---------------------------------------------------------------------- *)
(* Collision tests (rectangular shapes)                                    *)
(* ---------------------------------------------------------------------- *)
(* t = tn/denom and u = un/denom must both lie in [0, 1].                  *)
lineSegmentsIntersect(x1, y1, x2, y2, x3, y3, x4, y4) ==
    LET denom == (x1 - x2) * (y3 - y4) - (y1 - y2) * (x3 - x4)
        tn    == (x1 - x3) * (y3 - y4) - (y1 - y3) * (x3 - x4)
        un    == 0 - ((x1 - x2) * (y1 - y3) - (y1 - y2) * (x1 - x3))
        InUnit(n) == IF denom > 0 THEN 0 <= n /\ n <= denom
                                  ELSE denom <= n /\ n <= 0
    IN  IF denom = 0 THEN FALSE ELSE InUnit(tn) /\ InUnit(un)

lineIntersectsRect(x1, y1, x2, y2, rl, rt, rr, rb) ==
    \/ (x1 >= rl /\ x1 <= rr /\ y1 >= rt /\ y1 <= rb)
    \/ (x2 >= rl /\ x2 <= rr /\ y2 >= rt /\ y2 <= rb)
    \/ lineSegmentsIntersect(x1, y1, x2, y2, rl, rt, rr, rt)
    \/ lineSegmentsIntersect(x1, y1, x2, y2, rr, rt, rr, rb)
    \/ lineSegmentsIntersect(x1, y1, x2, y2, rl, rb, rr, rb)
    \/ lineSegmentsIntersect(x1, y1, x2, y2, rl, rt, rl, rb)

(* doesLineIntersectShapes: obstacles is the set of bounding rects of the  *)
(* canvas objects that carry an id, the connector's fromShape excluded.    *)
doesLineIntersectShapes(obstacles, x1, y1, x2, y2) ==
    \E b \in obstacles :
        lineIntersectsRect(x1, y1, x2, y2,
                           b.left - MARGIN, b.top - MARGIN,
                           b.left + b.width + MARGIN, b.top + b.height + MARGIN)

(* parsePathSegments(pathData) and parsePathSegmentsFromString(pathString): *)
(* the points of the M and L commands.  The class Connector defines        *)
(* parsePathSegments twice; the second definition, which reads an array of *)
(* commands, is the one in force.                                          *)
parsePathSegments(pathData) ==
    LET keep == SelectSeq(pathData, LAMBDA c : c.cmd \in {"M", "L"})
    IN  [i \in 1..Len(keep) |-> Pt(keep[i].x, keep[i].y)]

(* {x: cmd[1], y: cmd[2]} for a cmd that is one character: a point with no *)
(* coordinates.                                                            *)
UndefinedPoint == << >>

(* parsePathSegments given a path string, as routeAroundObstacles and      *)
(* pathHasCollisions call it: pathData[i] is a character, and each M and   *)
(* each L yields a point whose coordinates are undefined.                  *)
parsePathSegmentsOfString(pathString) ==
    [i \in 1..Len(SelectSeq(pathString, LAMBDA c : c.cmd \in {"M", "L"})) |-> UndefinedPoint]

HasCoordinates(p) == DOMAIN p # {}

(* doesLineIntersectShapes for the segment between two parsed points:      *)
(* every comparison of lineIntersectsRect and lineSegmentsIntersect is     *)
(* false when a coordinate is undefined.                                   *)
segmentIntersectsShapes(obstacles, p, q) ==
    /\ HasCoordinates(p)
    /\ HasCoordinates(q)
    /\ doesLineIntersectShapes(obstacles, p.x, p.y, q.x, q.y)

pathHasCollisions(obstacles, pathString) ==
    LET segments == parsePathSegmentsOfString(pathString)
    IN  \E i \in 1..(Len(segments) - 1) :
            segmentIntersectsShapes(obstacles, segments[i], segments[i + 1])

(* ---------------------------------------------------------------------- *)
(* Obstacle avoidance                                                      *)
(* ---------------------------------------------------------------------- *)
(* The ordered list of alternates routeAroundObstacles tries.              *)
Alternatives(start, end, fromDir, toDir) ==
    LET isSameSide   == getBaseDirection(fromDir) = getBaseDirection(toDir)
        LARGE_OFFSET == IF isSameSide THEN 100 ELSE OFFSET
        P4(a, b, c, d) == PathString(<<a, b, c, d>>)
    IN  IF fromDir \in {"top", "bottom"} THEN
            LET offsetY == IF fromDir = "top" THEN 0 - LARGE_OFFSET ELSE LARGE_OFFSET
                far     == (offsetY * 3) \div 2
                right   == P4(start, Pt(start.x + OFFSET, start.y),
                              Pt(start.x + OFFSET, end.y), end)
                left    == P4(start, Pt(start.x - OFFSET, start.y),
                              Pt(start.x - OFFSET, end.y), end)
            IN  << P4(start, Pt(start.x, start.y + offsetY), Pt(end.x, start.y + offsetY), end),
                   P4(start, Pt(start.x, start.y + far), Pt(end.x, start.y + far), end),
                   P4(start, Pt(start.x, end.y - offsetY), Pt(end.x, end.y - offsetY), end) >>
                \o (IF end.x > start.x THEN <<right, left>> ELSE <<left, right>>)
        ELSE
            LET offsetX == IF fromDir = "left" THEN 0 - LARGE_OFFSET ELSE LARGE_OFFSET
                far     == (offsetX * 3) \div 2
                down    == P4(start, Pt(start.x, start.y + OFFSET),
                              Pt(end.x, start.y + OFFSET), end)
                up      == P4(start, Pt(start.x, start.y - OFFSET),
                              Pt(end.x, start.y - OFFSET), end)
            IN  << P4(start, Pt(start.x + offsetX, start.y), Pt(start.x + offsetX, end.y), end),
                   P4(start, Pt(start.x + far, start.y), Pt(start.x + far, end.y), end),
                   P4(start, Pt(end.x - offsetX, start.y), Pt(end.x - offsetX, end.y), end) >>
                \o (IF end.y > start.y THEN <<down, up>> ELSE <<up, down>>)

(* First element of a list of path strings without a collision, or dflt.  *)
FirstFree(obstacles, paths, dflt) ==
    Let({i \in 1..Len(paths) : ~pathHasCollisions(obstacles, paths[i])},
        LAMBDA free : IF free = {} THEN dflt
                      ELSE paths[CHOOSE i \in free : \A j \in free : i <= j])

(* The last candidate of the list returned in place of the default path.   *)
routeAroundObstaclesKeepingLast(obstacles, start, end, fromDir, toDir, defaultPath) ==
    Last(Alternatives(start, end, fromDir, toDir))

routeAroundObstacles(obstacles, start, end, fromDir, toDir, defaultPath) ==
    IF ~pathHasCollisions(obstacles, defaultPath) THEN defaultPath
    ELSE FirstFree(obstacles, Alternatives(start, end, fromDir, toDir), defaultPath)

(* ---------------------------------------------------------------------- *)
(* Orthogonal routing                                                      *)
(* ---------------------------------------------------------------------- *)
StubPoint(p, baseDir) ==
    CASE baseDir = "top"    -> Pt(p.x, p.y - STUB_LENGTH)
      [] baseDir = "bottom" -> Pt(p.x, p.y + STUB_LENGTH)
      [] baseDir = "left"   -> Pt(p.x - STUB_LENGTH, p.y)
      [] baseDir = "right"  -> Pt(p.x + STUB_LENGTH, p.y)
      [] OTHER -> p

(* Arrow angle as a function of the target side.                           *)
EndAngle(toBaseDir) ==
    CASE toBaseDir = "top"    -> 90
      [] toBaseDir = "right"  -> 180
      [] toBaseDir = "bottom" -> 0 - 90
      [] OTHER -> 0

(* The automatic path between the two stubs, before obstacle avoidance.    *)
DefaultMiddle(start, end, startStub, endStub, fromBaseDir, toBaseDir) ==
    LET Horiz(d) == d \in {"left", "right"}
        Vert(d)  == d \in {"top", "bottom"}
        Via(a, b) == PathString(<<startStub, a, b, endStub>>)
    IN  IF Abs(end.x - start.x) < AlignmentTolerance
           /\ Vert(fromBaseDir) /\ Vert(toBaseDir) /\ fromBaseDir # toBaseDir
        THEN Via(Pt((start.x + end.x) \div 2, startStub.y),
                 Pt((start.x + end.x) \div 2, endStub.y))
        ELSE IF Abs(end.y - start.y) < AlignmentTolerance
                /\ Horiz(fromBaseDir) /\ Horiz(toBaseDir) /\ fromBaseDir # toBaseDir
        THEN Via(Pt(startStub.x, (start.y + end.y) \div 2),
                 Pt(endStub.x, (start.y + end.y) \div 2))
        ELSE IF Horiz(fromBaseDir) /\ Horiz(toBaseDir)
        THEN Via(Pt((startStub.x + endStub.x) \div 2, startStub.y),
                 Pt((startStub.x + endStub.x) \div 2, endStub.y))
        ELSE IF Vert(fromBaseDir) /\ Vert(toBaseDir)
        THEN Via(Pt(startStub.x, (startStub.y + endStub.y) \div 2),
                 Pt(endStub.x, (startStub.y + endStub.y) \div 2))
        ELSE IF Horiz(fromBaseDir)
        THEN PathString(<<startStub, Pt(endStub.x, startStub.y), endStub>>)
        ELSE PathString(<<startStub, Pt(startStub.x, endStub.y), endStub>>)

(* The simple three-point paths tried first when both sides are the same   *)
(* and the shapes are not aligned.                                         *)
SimplePaths(start, end, startStub, endStub, fromBaseDir, toBaseDir) ==
    LET holdY == PathString(<<startStub, Pt(endStub.x, startStub.y), endStub>>)
        holdX == PathString(<<startStub, Pt(startStub.x, endStub.y), endStub>>)
    IN  IF fromBaseDir # toBaseDir \/ fromBaseDir \notin BaseDirs THEN << >>
        ELSE IF fromBaseDir \in {"left", "right"} THEN <<holdY, holdX>>
        ELSE <<holdX, holdY>>

(* The path between the two stubs chosen by createOrthogonalPath.          *)
MiddlePath(obstacles, start, end, startStub, endStub, fromBaseDir, toBaseDir) ==
    FirstFree(obstacles,
              SimplePaths(start, end, startStub, endStub, fromBaseDir, toBaseDir),
              routeAroundObstacles(obstacles, startStub, endStub, fromBaseDir, toBaseDir,
                  DefaultMiddle(start, end, startStub, endStub, fromBaseDir, toBaseDir)))

(* `M start L startStub <middle without its M> L end`                      *)
Assemble(start, end, startStub, middlePath) ==
    <<Cmd("M", start.x, start.y), Cmd("L", startStub.x, startStub.y)>>
    \o (IF Len(middlePath) > 0 /\ middlePath[1].cmd = "M"
        THEN Tail(middlePath) ELSE middlePath)
    \o <<Cmd("L", end.x, end.y)>>

OrthogonalPath(obstacles, start, end, fromBaseDir, toBaseDir) ==
    [pathString |->
        Assemble(start, end, StubPoint(start, fromBaseDir),
                 MiddlePath(obstacles, start, end, StubPoint(start, fromBaseDir),
                            StubPoint(end, toBaseDir), fromBaseDir, toBaseDir)),
     endAngle |-> EndAngle(toBaseDir)]

(* Connector.createOrthogonalPath                                          *)
createOrthogonalPath(obstacles, start, end, fromPoint, toPoint) ==
    OrthogonalPath(obstacles, start, end,
                   getBaseDirection(getDirectionFromPoint(fromPoint)),
                   getBaseDirection(getDirectionFromPoint(toPoint)))

(* ---------------------------------------------------------------------- *)
(* Waypoint adjustments and controls                                       *)
(* ---------------------------------------------------------------------- *)
(* Segment indexes are the code's 0-based ones: segment i joins the points *)
(* segments[i] and segments[i + 1], which are pts[i + 1] and pts[i + 2].   *)
IsHorizontalSeg(pts, i) == Abs(pts[i + 1].y - pts[i + 2].y) < 1

IsVerticalSeg(pts, i) == Abs(pts[i + 1].x - pts[i + 2].x) < 1

ShiftSeg(pts, i, ddx, ddy) ==
    [k \in 1..Len(pts) |->
        IF k \in {i + 1, i + 2} THEN Pt(pts[k].x + ddx, pts[k].y + ddy) ELSE pts[k]]

(* One iteration of the loop of applyWaypointAdjustments.                  *)
ApplyOne(pts, index, adjustment) ==
    IF index < Len(pts) - 1 THEN
        IF IsHorizontalSeg(pts, index) /\ adjustment.offsetY # 0
            THEN ShiftSeg(pts, index, 0, adjustment.offsetY)
        ELSE IF IsVerticalSeg(pts, index) /\ adjustment.offsetX # 0
            THEN ShiftSeg(pts, index, adjustment.offsetX, 0)
        ELSE pts
    ELSE pts

RECURSIVE ApplyFrom(_, _, _)
(* The stored adjustments with key >= from, in ascending key order.        *)
ApplyFrom(pts, adjustments, from) ==
    IF {k \in DOMAIN adjustments : k >= from} = {} THEN pts
    ELSE Let(CHOOSE a \in DOMAIN adjustments :
                 a >= from /\ \A b \in DOMAIN adjustments : b >= from => a <= b,
             LAMBDA k : ApplyFrom(ApplyOne(pts, k, adjustments[k]), adjustments, k + 1))

applyWaypointAdjustments(pathString, adjustments) ==
    PathString(ApplyFrom(parsePathSegments(pathString), adjustments, 0))

SegLen2(pts, i) ==
    (pts[i + 2].x - pts[i + 1].x) * (pts[i + 2].x - pts[i + 1].x)
    + (pts[i + 2].y - pts[i + 1].y) * (pts[i + 2].y - pts[i + 1].y)

(* Index of the longest segment strictly between the stubs, -1 if none:    *)
(* the loop keeps the first index whose length beats every earlier one.    *)
LongestSegmentIndex(pts) ==
    Let({i \in 1..(Len(pts) - 3) :
            /\ SegLen2(pts, i) > 0
            /\ \A j \in 1..(Len(pts) - 3) :
                  /\ SegLen2(pts, j) <= SegLen2(pts, i)
                  /\ (j < i => SegLen2(pts, j) < SegLen2(pts, i))},
        LAMBDA cand : IF Len(pts) < 4 \/ cand = {} THEN 0 - 1
                      ELSE CHOOSE i \in cand : TRUE)

Control(sym, seg, dir, px, py) ==
    [text |-> sym, segmentIndex |-> seg, waypointDirection |-> dir,
     left |-> px, top |-> py]

(* The two controls at the middle of segment i of a displayed path.       *)
ControlsOn(pts, i) ==
    LET midX == (pts[i + 1].x + pts[i + 2].x) \div 2
        midY == (pts[i + 1].y + pts[i + 2].y) \div 2
    IN  IF i < 0 THEN << >>
        ELSE IF IsHorizontalSeg(pts, i) THEN
            << Control("up", i, "vertical", midX, midY - 15),
               Control("down", i, "vertical", midX, midY + 15) >>
        ELSE IF IsVerticalSeg(pts, i) THEN
            << Control("left", i, "horizontal", midX - 15, midY),
               Control("right", i, "horizontal", midX + 15, midY) >>
        ELSE << >>

ControlsOf(pts) == ControlsOn(pts, LongestSegmentIndex(pts))

(* createWaypointControls: the controls created for a displayed path.      *)
WaypointControls(path) == ControlsOf(parsePathSegments(path))

(* Math.atan2(dy, dx) * 180 / Math.PI; an oblique direction keeps (dy, dx) *)
Atan2Deg(dy, dx) ==
    IF dy = 0 /\ dx >= 0 THEN [deg |-> 0, dy |-> 0, dx |-> 0]
    ELSE IF dy = 0 THEN [deg |-> 180, dy |-> 0, dx |-> 0]
    ELSE IF dx = 0 /\ dy > 0 THEN [deg |-> 90, dy |-> 0, dx |-> 0]
    ELSE IF dx = 0 THEN [deg |-> 0 - 90, dy |-> 0, dx |-> 0]
    ELSE [deg |-> 0, dy |-> dy, dx |-> dx]

AngleOf(deg) == [deg |-> deg, dy |-> 0, dx |-> 0]

(* The arrow placed at the end of a displayed path (update and             *)
(* updatePathFromWaypoint).                                                *)
ArrowFromPath(pts) ==
    LET endPoint  == pts[Len(pts)]
        beforeEnd == pts[Len(pts) - 1]
    IN  [left |-> endPoint.x, top |-> endPoint.y,
         angle |-> Atan2Deg(endPoint.y - beforeEnd.y, endPoint.x - beforeEnd.x)]

(* ---------------------------------------------------------------------- *)
(* Bounds of the model                                                     *)
(* ---------------------------------------------------------------------- *)
(* Number of user events in a behaviour.                                   *)
MaxOps == 2

(* Number of connector drags that may be pending at once.                  *)
MaxDrags == 2

(* Number of connectors the registry may hold.                             *)
MaxConnectors == 2

(* ---------------------------------------------------------------------- *)
(* State                                                                   *)
(* ---------------------------------------------------------------------- *)
VARIABLES
    shapes,             \* the shape objects in use: object identity -> fields
    conns,              \* the Connector objects in use: connector id -> fields
    canvasObjs,         \* canvas.getObjects(), in stacking order
    active,             \* canvas.getActiveObjects()
    connectors,         \* ConnectorManager.connectors: ids in insertion order
    connectionHandles,  \* ConnectorManager.connectionHandles
    drags,              \* pending connector drags: the mouse:move / mouse:up
                        \* handler pairs registered by startConnectorDrag
    undoStack,          \* StateManager.undoStack
    redoStack,          \* StateManager.redoStack
    currentState,       \* StateManager.currentState (<< >> is null)
    nextId,             \* next fresh object identity / generateId() value
    ops,                \* number of user events so far
    last                \* the last user event: its name, its target, its
                        \* pointer position or offset, and the drags that
                        \* were pending when it happened

vars == <<shapes, conns, canvasObjs, active, connectors, connectionHandles, drags,
          undoStack, redoStack, currentState, nextId, ops, last>>

(* The whole state as one record, so that a handler is a function on it.   *)
World ==
    [shapes |-> shapes, conns |-> conns, canvasObjs |-> canvasObjs, active |-> active,
     connectors |-> connectors, connectionHandles |-> connectionHandles,
     drags |-> drags, undoStack |-> undoStack, redoStack |-> redoStack,
     currentState |-> currentState, nextId |-> nextId]

(* ---------------------------------------------------------------------- *)
(* Canvas objects                                                          *)
(* ---------------------------------------------------------------------- *)
(* k: "shape" (ref = shape object), "path" / "arrow" / "wp" / "ep"         *)
(* (ref = connector id; aux tells the two controls or handles apart),      *)
(* "handle" (ref = parent shape object, aux = direction), "text" and       *)
(* "circle" (plain objects restored from a saved state).                   *)
Item(kind, r, a, px, py) == [k |-> kind, ref |-> r, aux |-> a, left |-> px, top |-> py]

ShapeItem(oid) == Item("shape", oid, "", 0, 0)

PathItem(cid) == Item("path", cid, "", 0, 0)

ArrowItem(cid) == Item("arrow", cid, "", 0, 0)

Bounds(sh) == [left |-> sh.left, top |-> sh.top, width |-> sh.width, height |-> sh.height]

SeqToSet(s) == {s[i] : i \in 1..Len(s)}

RemoveAll(s, x) == SelectSeq(s, LAMBDA e : e # x)

(* TLC computes an operator's argument when it is first read.  Ready(w) is *)
(* TRUE in every state and makes a loop compute the state one iteration    *)
(* leaves before the next iteration starts.                                *)
Ready(w) == w.nextId > 0

(* Shape objects on the canvas: the canvas objects that carry an id.       *)
LiveShapes(w) == {it.ref : it \in {o \in SeqToSet(w.canvasObjs) : o.k = "shape"}}

(* ---------------------------------------------------------------------- *)
(* StateManager and saveCanvasState                                        *)
(* ---------------------------------------------------------------------- *)
(* obj.toJSON(['id', 'shapeType', 'text']) of one canvas object.           *)
ObjToJSON(w, it) ==
    IF it.k = "shape" THEN
        [k |-> "shape", id |-> w.shapes[it.ref].id,
         left |-> w.shapes[it.ref].left, top |-> w.shapes[it.ref].top,
         width |-> w.shapes[it.ref].width, height |-> w.shapes[it.ref].height]
    ELSE [k |-> IF it.k \in {"ep", "circle"} THEN "circle" ELSE "text", id |-> 0,
          left |-> it.left, top |-> it.top, width |-> 0, height |-> 0]

(* Connector.toJSON                                                        *)
ConnToJSON(w, c) ==
    [id |-> c.id,
     fromShapeId |-> w.shapes[c.fromShape].id,
     toShapeId |-> w.shapes[c.toShape].id,
     routingStyle |-> c.routingStyle,
     fromPoint |-> c.fromPoint, toPoint |-> c.toPoint,
     strokeColor |-> c.strokeColor, strokeWidth |-> c.strokeWidth,
     text |-> c.text,
     waypointAdjustments |-> c.waypointAdjustments]

(* ConnectorManager.toJSON                                                 *)
ManagerToJSON(w) ==
    [i \in 1..Len(w.connectors) |-> ConnToJSON(w, w.conns[w.connectors[i]])]

(* saveState without the limit on the size of the undo stack.              *)
saveStateKeepingAll(w, state) ==
    IF w.currentState # << >> /\ w.currentState[1] = state THEN w
    ELSE [w EXCEPT !.undoStack = Append(@, state),
                   !.currentState = <<state>>,
                   !.redoStack = << >>]

(* StateManager.saveState                                                  *)
saveState(w, state) ==
    IF w.currentState # << >> /\ w.currentState[1] = state THEN w
    ELSE [w EXCEPT !.undoStack = IF Len(@) + 1 > MaxStackSize
                                 THEN Tail(Append(@, state)) ELSE Append(@, state),
                   !.currentState = <<state>>,
                   !.redoStack = << >>]

(* The canvas objects saveCanvasState keeps: not the connector visuals.    *)
SavedObjects(objs) == SelectSeq(objs, LAMBDA o : o.k \notin {"path", "arrow"})

ObjectsToJSON(w, objs) == [i \in 1..Len(objs) |-> ObjToJSON(w, objs[i])]

saveCanvasState(w) ==
    saveState(w, [objects |-> ObjectsToJSON(w, SavedObjects(w.canvasObjs)),
                  connectors |-> ManagerToJSON(w)])

(* canvas.add(obj): object:added -> handleObjectAdded -> saveCanvasState   *)
canvasAdd(w, it) == saveCanvasState([w EXCEPT !.canvasObjs = Append(@, it)])

RECURSIVE canvasAddAll(_, _)
canvasAddAll(w, its) ==
    IF its = << >> \/ ~Ready(w) THEN w
    ELSE canvasAddAll(canvasAdd(w, Head(its)), Tail(its))

RECURSIVE canvasRemove(_, _)
RECURSIVE canvasRemoveAll(_, _)
canvasRemoveAll(w, its) ==
    IF its = << >> \/ ~Ready(w) THEN w
    ELSE canvasRemoveAll(canvasRemove(w, Head(its)), Tail(its))

(* ---------------------------------------------------------------------- *)
(* Connection handles, endpoint handles, selection                         *)
(* ---------------------------------------------------------------------- *)
HandleOrder ==
    <<"top-left", "top", "top-right", "right-top", "right", "right-bottom",
      "bottom-left", "bottom", "bottom-right", "left-top", "left", "left-bottom">>

(* Position of the handle of a direction: 15 units off the shape's edge.   *)
HandleAt(oid, d, p, base) ==
    Item("handle", oid, d,
         p.x + (IF base = "left" THEN 0 - 15 ELSE IF base = "right" THEN 15 ELSE 0),
         p.y + (IF base = "top" THEN 0 - 15 ELSE IF base = "bottom" THEN 15 ELSE 0))

HandleItem(w, oid, d) ==
    HandleAt(oid, d, getFixedConnectionPoint(Bounds(w.shapes[oid]), PointMap[d]),
             getBaseDirection(d))

Handles(w, oid) == [i \in 1..Len(HandleOrder) |-> HandleItem(w, oid, HandleOrder[i])]

hideConnectionHandles(w) ==
    [canvasRemoveAll(w, w.connectionHandles) EXCEPT !.connectionHandles = << >>]

AddHandles(w, hs) == [canvasAddAll(w, hs) EXCEPT !.connectionHandles = hs]

showConnectionHandles(w, oid) ==
    Let(hideConnectionHandles(w), LAMBDA w1 : AddHandles(w1, Handles(w1, oid)))

hideEndpointHandles(w, cid) ==
    [canvasRemoveAll(w, w.conns[cid].endpointHandles)
        EXCEPT !.conns[cid].endpointHandles = << >>]

(* The two endpoint circles of a connector, at its resolved end points.    *)
EndpointHandles(w, c) ==
    <<Item("ep", c.id, "start",
           getFixedConnectionPoint(Bounds(w.shapes[c.fromShape]), c.fromPoint).x,
           getFixedConnectionPoint(Bounds(w.shapes[c.fromShape]), c.fromPoint).y),
      Item("ep", c.id, "end",
           getFixedConnectionPoint(Bounds(w.shapes[c.toShape]), c.toPoint).x,
           getFixedConnectionPoint(Bounds(w.shapes[c.toShape]), c.toPoint).y)>>

AddEndpointHandles(w, cid, hs) ==
    [canvasAddAll(w, hs) EXCEPT !.conns[cid].endpointHandles = hs]

showEndpointHandles(w, cid) ==
    Let(hideEndpointHandles(w, cid),
        LAMBDA w1 : AddEndpointHandles(w1, cid, EndpointHandles(w1, w1.conns[cid])))

RECURSIVE UnhighlightAll(_, _)
UnhighlightAll(w, cids) ==
    IF cids = << >> \/ ~Ready(w) THEN w
    ELSE UnhighlightAll(hideEndpointHandles(w, Head(cids)), Tail(cids))

(* handleSelectionCleared: unhighlight every connector, hide the handles.  *)
handleSelectionCleared(w) == hideConnectionHandles(UnhighlightAll(w, w.connectors))

(* canvas.discardActiveObject(): selection:cleared fires when an object    *)
(* was active.                                                             *)
discardActiveObject(w) ==
    IF w.active = << >> THEN w
    ELSE handleSelectionCleared([w EXCEPT !.active = << >>])

(* canvas.remove(obj): nothing happens for an object that is not on the    *)
(* canvas; removing the active object fires selection:cleared; then        *)
(* object:removed -> handleObjectRemoved -> saveCanvasState.               *)
canvasRemove(w, it) ==
    IF it \notin SeqToSet(w.canvasObjs) THEN w
    ELSE saveCanvasState(
             IF w.active = <<it>>
             THEN handleSelectionCleared([w EXCEPT !.canvasObjs = RemoveAll(@, it),
                                                   !.active = << >>])
             ELSE [w EXCEPT !.canvasObjs = RemoveAll(@, it)])

(* ---------------------------------------------------------------------- *)
(* Connector                                                               *)
(* ---------------------------------------------------------------------- *)
WpItem(cid, ctl) == Item("wp", cid, ctl.text, ctl.left, ctl.top)

WpItems(c) == [i \in 1..Len(c.waypointCircles) |-> WpItem(c.id, c.waypointCircles[i])]

(* The rectangles doesLineIntersectShapes tests for a connector.           *)
Obstacles(w, c) == {Bounds(w.shapes[o]) : o \in LiveShapes(w) \ {c.fromShape}}

PathData(orthoPath, endPoint) ==
    [pathString |-> orthoPath.pathString, endPoint |-> endPoint,
     endAngle |-> orthoPath.endAngle]

(* Connector.calculatePath for the orthogonal routing style.               *)
calculatePath(w, c) ==
    Let(getFixedConnectionPoint(Bounds(w.shapes[c.toShape]), c.toPoint),
        LAMBDA endPoint :
            PathData(createOrthogonalPath(
                         Obstacles(w, c),
                         getFixedConnectionPoint(Bounds(w.shapes[c.fromShape]), c.fromPoint),
                         endPoint, c.fromPoint, c.toPoint),
                     endPoint))

AddWaypointControls(w, cid, new) ==
    [canvasAddAll(w, [i \in 1..Len(new) |-> WpItem(cid, new[i])])
        EXCEPT !.conns[cid].waypointCircles = new]

(* Connector.createWaypointControls                                        *)
createWaypointControls(w, cid) ==
    AddWaypointControls(
        [canvasRemoveAll(w, WpItems(w.conns[cid])) EXCEPT !.conns[cid].waypointCircles = << >>],
        cid, WaypointControls(w.conns[cid].path))

(* The displayed path and the arrow update() sets from a routed path.      *)
Displayed(w, cid, originalPathString, pathString) ==
    [w EXCEPT !.conns[cid].originalPathString = originalPathString,
              !.conns[cid].path = pathString,
              !.conns[cid].arrow =
                  IF Len(parsePathSegments(pathString)) >= 2
                  THEN ArrowFromPath(parsePathSegments(pathString)) ELSE @]

Adjusted(pathString, adj) ==
    IF DOMAIN adj # {} THEN applyWaypointAdjustments(pathString, adj) ELSE pathString

(* UpdateWith, the stored adjustments applied to the displayed path.       *)
UpdateAccumulating(w, cid, pathData) ==
    createWaypointControls(
        Displayed(w, cid, pathData.pathString,
                  Adjusted(w.conns[cid].path, w.conns[cid].waypointAdjustments)),
        cid)

UpdateWith(w, cid, pathData) ==
    createWaypointControls(
        Displayed(w, cid, pathData.pathString,
                  Adjusted(pathData.pathString, w.conns[cid].waypointAdjustments)),
        cid)

(* Connector.calculateBestDirection                                        *)
calculateBestDirection(fromCenter, toCenter) ==
    IF Abs(toCenter.x - fromCenter.x) > Abs(toCenter.y - fromCenter.y)
    THEN IF toCenter.x - fromCenter.x > 0 THEN "right" ELSE "left"
    ELSE IF toCenter.y - fromCenter.y > 0 THEN "bottom" ELSE "top"

Center(b) == Pt(b.left + b.width \div 2, b.top + b.height \div 2)

(* Connector.updateConnectionPoints, the call update() has commented out.  *)
updateConnectionPoints(w, cid) ==
    [w EXCEPT
       !.conns[cid].fromPoint =
           PointMap[calculateBestDirection(Center(Bounds(w.shapes[w.conns[cid].fromShape])),
                                           Center(Bounds(w.shapes[w.conns[cid].toShape])))],
       !.conns[cid].toPoint =
           PointMap[calculateBestDirection(Center(Bounds(w.shapes[w.conns[cid].toShape])),
                                           Center(Bounds(w.shapes[w.conns[cid].fromShape])))]]

(* update() with the call of updateConnectionPoints in place.              *)
updateSwitching(w, cid) ==
    Let(updateConnectionPoints(w, cid),
        LAMBDA w1 : UpdateWith(w1, cid, calculatePath(w1, w1.conns[cid])))

(* Connector.update                                                        *)
update(w, cid) == UpdateWith(w, cid, calculatePath(w, w.conns[cid]))

RECURSIVE FireHandlers(_, _)
(* shape.fire('moving' | 'scaling' | 'rotating' | 'modified'): the update  *)
(* handlers registered on the shape run in registration order.             *)
FireHandlers(w, hs) ==
    IF hs = << >> \/ ~Ready(w) THEN w ELSE FireHandlers(update(w, Head(hs)), Tail(hs))

(* A missing shape argument (null / undefined).                            *)
NoShape == 0

(* A missing option ( options.fromPoint undefined ).                       *)
NoPoint == Pt(0 - 1, 0 - 1)

Options(fromDirection, toDirection) ==
    [fromPoint |-> NoPoint, toPoint |-> NoPoint,
     fromDirection |-> fromDirection, toDirection |-> toDirection,
     waypointAdjustments |-> << >>]

(* The fields the constructor sets; the stroke width 2.5 is kept in tenths *)
Constructed(cid, fromShape, toShape, options) ==
    [id |-> cid, fromShape |-> fromShape, toShape |-> toShape,
     fromPoint |-> options.fromPoint, toPoint |-> options.toPoint,
     routingStyle |-> "orthogonal",
     strokeColor |-> "#5A6C7D", strokeWidth |-> 25, text |-> "",
     waypointAdjustments |-> options.waypointAdjustments,
     originalPathString |-> << >>, path |-> << >>,
     arrow |-> [left |-> 0, top |-> 0, angle |-> AngleOf(0)],
     waypointCircles |-> << >>, endpointHandles |-> << >>]

(* obj.sendToBack()                                                        *)
sendToBack(w, it) == [w EXCEPT !.canvasObjs = <<it>> \o RemoveAll(@, it)]

(* createVisuals once the path has been calculated.                        *)
VisualsFrom(w, cid, pathData) ==
    createWaypointControls(
        sendToBack(
            sendToBack(
                canvasAdd(
                    canvasAdd(
                        [w EXCEPT !.conns[cid].originalPathString = pathData.pathString,
                                  !.conns[cid].path = pathData.pathString,
                                  !.conns[cid].arrow =
                                      [left |-> pathData.endPoint.x,
                                       top |-> pathData.endPoint.y,
                                       angle |-> AngleOf(pathData.endAngle)]],
                        PathItem(cid)),
                    ArrowItem(cid)),
                PathItem(cid)),
            ArrowItem(cid)),
        cid)

(* Connector.createVisuals                                                 *)
createVisuals(w, cid) == VisualsFrom(w, cid, calculatePath(w, w.conns[cid]))

(* Connector.bindEvents: the update handler is registered on both shapes.  *)
bindEvents(w, cid, fromShape, toShape) ==
    [w EXCEPT !.shapes[fromShape].handlers = Append(@, cid),
              !.shapes[toShape].handlers = Append(@, cid)]

(* new Connector(fromShape, toShape, options); its id is w.nextId.  The    *)
(* connector is not in the registry yet.                                   *)
NewConnector(w, fromShape, toShape, options) ==
    bindEvents(
        createVisuals(
            [w EXCEPT !.nextId = @ + 1,
                      !.conns = Put(@, w.nextId,
                                    Constructed(w.nextId, fromShape, toShape, options))],
            w.nextId),
        w.nextId, fromShape, toShape)

(* The end of Connector.remove: shape.off(event) without a handler drops   *)
(* every handler of the event from the shape.                              *)
unbindEvents(w, c) ==
    [w EXCEPT !.shapes[c.fromShape].handlers = << >>,
              !.shapes[c.toShape].handlers = << >>]

(* Connector.remove                                                        *)
ConnectorRemove(w, cid) ==
    unbindEvents(
        hideEndpointHandles(
            canvasRemoveAll(w, <<PathItem(cid), ArrowItem(cid)>> \o WpItems(w.conns[cid])),
            cid),
        w.conns[cid])

(* ---------------------------------------------------------------------- *)
(* ConnectorManager                                                        *)
(* ---------------------------------------------------------------------- *)
Dist2(p, q) == (p.x - q.x) * (p.x - q.x) + (p.y - q.y) * (p.y - q.y)

SideOrder == <<"top", "right", "bottom", "left">>

SideDist2(b, target, i) == Dist2(getFixedConnectionPoint(b, PointMap[SideOrder[i]]), target)

(* The side, in the order top, right, bottom, left, whose midpoint is      *)
(* nearest to a point; the first of several at the same distance.          *)
NearestSide(b, target) ==
    SideOrder[CHOOSE i \in 1..4 :
                 \A j \in 1..4 : /\ SideDist2(b, target, i) <= SideDist2(b, target, j)
                                 /\ (j < i => SideDist2(b, target, j) > SideDist2(b, target, i))]

PointOf(dir) == IF dir \in DOMAIN PointMap THEN PointMap[dir] ELSE PointMap["right"]

getFixedPointFromDirection(w, direction, shape, otherShape) ==
    PointOf(IF direction = "auto"
            THEN NearestSide(Bounds(w.shapes[shape]), Center(Bounds(w.shapes[otherShape])))
            ELSE direction)

(* The initial value of nearestDirection, returned without the search.     *)
nearestDirectionUnsearched(w, pointer, shape) == "top"

findNearestConnectionPoint(w, pointer, shape) == NearestSide(Bounds(w.shapes[shape]), pointer)

(* The options createConnector completes before it constructs.             *)
Completed(w, fromShape, toShape, options) ==
    [options EXCEPT
       !.fromPoint = IF @ = NoPoint
           THEN getFixedPointFromDirection(
                    w, IF options.fromDirection = "" THEN "auto" ELSE options.fromDirection,
                    fromShape, toShape)
           ELSE @,
       !.toPoint = IF @ = NoPoint
           THEN getFixedPointFromDirection(
                    w, IF options.toDirection = "" THEN "auto" ELSE options.toDirection,
                    toShape, fromShape)
           ELSE @]

(* connectors.set and the pushes on the shapes' reference lists.           *)
Register(w, cid, fromShape, toShape) ==
    [w EXCEPT !.connectors = Append(@, cid),
              !.shapes[fromShape].outgoing = Append(@, cid),
              !.shapes[toShape].incoming = Append(@, cid)]

(* createConnector without its guard on the two endpoints.                 *)
createConnectorUnguarded(w, fromShape, toShape, options) ==
    IF fromShape = NoShape \/ toShape = NoShape
    THEN [w |-> w, ret |-> 0]
    ELSE [w |-> Register(NewConnector(w, fromShape, toShape,
                                      Completed(w, fromShape, toShape, options)),
                         w.nextId, fromShape, toShape),
          ret |-> w.nextId]

(* ConnectorManager.createConnector; ret is the new connector's id, or 0   *)
(* for null.                                                               *)
createConnector(w, fromShape, toShape, options) ==
    IF fromShape = NoShape \/ toShape = NoShape \/ fromShape = toShape
    THEN [w |-> w, ret |-> 0]
    ELSE [w |-> Register(NewConnector(w, fromShape, toShape,
                                      Completed(w, fromShape, toShape, options)),
                         w.nextId, fromShape, toShape),
          ret |-> w.nextId]

(* The filters of removeConnector on the two shapes' reference lists.      *)
Unreference(w, c) ==
    [w EXCEPT !.shapes[c.fromShape].outgoing = RemoveAll(@, c.id),
              !.shapes[c.toShape].incoming = RemoveAll(@, c.id)]

(* ConnectorManager.removeConnector                                        *)
removeConnector(w, connectorId) ==
    IF connectorId \notin SeqToSet(w.connectors) THEN w
    ELSE [ConnectorRemove(Unreference(w, w.conns[connectorId]), connectorId)
             EXCEPT !.connectors = RemoveAll(@, connectorId)]

RECURSIVE RemoveEachSkipping(_, _)
(* The loop run over the live collection: the entry after a removed one is *)
(* passed over.                                                            *)
RemoveEachSkipping(w, ids) ==
    IF ids = << >> \/ ~Ready(w) THEN w
    ELSE RemoveEachSkipping(removeConnector(w, Head(ids)), SubSeq(ids, 3, Len(ids)))

RECURSIVE RemoveEach(_, _)
RemoveEach(w, ids) ==
    IF ids = << >> \/ ~Ready(w) THEN w
    ELSE RemoveEach(removeConnector(w, Head(ids)), Tail(ids))

(* ConnectorManager.removeConnectorsForShape: collects the ids first, then *)
(* removes them.                                                           *)
removeConnectorsForShape(w, shape) ==
    RemoveEach(w, SelectSeq(w.connectors,
                      LAMBDA id : w.conns[id].fromShape = shape \/ w.conns[id].toShape = shape))

(* The x (y) of the point snapShapesToAlign compares on a shape.           *)
SnapX(b, d) == b.left + (b.width * (IF d = "left" THEN 0 ELSE IF d = "right" THEN 4 ELSE 2)) \div 4

SnapY(b, d) == b.top + (b.height * (IF d = "top" THEN 0 ELSE IF d = "bottom" THEN 4 ELSE 2)) \div 4

(* ConnectorManager.snapShapesToAlign                                      *)
snapShapesToAlign(w, fromShape, toShape, fromDirection, toDirection) ==
    IF fromDirection \in {"top", "bottom"} /\ toDirection \in {"top", "bottom"} THEN
        IF Abs(SnapX(Bounds(w.shapes[fromShape]), fromDirection)
               - SnapX(Bounds(w.shapes[toShape]), toDirection)) < AlignmentTolerance
        THEN [w EXCEPT !.shapes[toShape].left =
                  @ + SnapX(Bounds(w.shapes[fromShape]), fromDirection)
                    - SnapX(Bounds(w.shapes[toShape]), toDirection)]
        ELSE w
    ELSE IF fromDirection \in {"left", "right"} /\ toDirection \in {"left", "right"} THEN
        IF Abs(SnapY(Bounds(w.shapes[fromShape]), fromDirection)
               - SnapY(Bounds(w.shapes[toShape]), toDirection)) < AlignmentTolerance
        THEN [w EXCEPT !.shapes[toShape].top =
                  @ + SnapY(Bounds(w.shapes[fromShape]), fromDirection)
                    - SnapY(Bounds(w.shapes[toShape]), toDirection)]
        ELSE w
    ELSE w

(* ---------------------------------------------------------------------- *)
(* Drag-to-connect                                                         *)
(* ---------------------------------------------------------------------- *)
(* A pointer target: nothing, a shape or a connection handle on the canvas *)
NoTarget == Item("none", 0, "", 0, 0)

(* canvas.findTarget(e.e): the target of the event, or nothing when that   *)
(* object has left the canvas in the meantime.                             *)
findTarget(w, target) ==
    IF target \in SeqToSet(w.canvasObjs) THEN target ELSE NoTarget

(* startConnectorDrag: registers the move / up handler pair and the        *)
(* preview overlay of one drag.                                            *)
startConnectorDrag(w, fromShape, handle) ==
    [discardActiveObject(w) EXCEPT
        !.drags = Append(@, [fromShape |-> fromShape, direction |-> handle.aux])]

(* moveHandler of one drag: draws the preview, and shows the handles of    *)
(* the shape under the pointer.                                            *)
moveHandler(w, drag, target) ==
    IF findTarget(w, target).k = "shape" /\ findTarget(w, target).ref # drag.fromShape
    THEN showConnectionHandles(w, findTarget(w, target).ref)
    ELSE w

(* What upHandler detects under the pointer t: the target shape and side.  *)
Detect(w, drag, t, pointer) ==
    IF t.k = "handle" THEN [toShape |-> t.ref, toDirection |-> t.aux]
    ELSE IF t.k = "shape" /\ t.ref # drag.fromShape
    THEN [toShape |-> t.ref,
          toDirection |-> findNearestConnectionPoint(w, pointer, t.ref)]
    ELSE [toShape |-> NoShape, toDirection |-> "auto"]

(* The commit of upHandler: snapShapesToAlign, then createConnector.       *)
Commit(w, drag, d) ==
    IF d.toShape # NoShape
    THEN createConnector(
             snapShapesToAlign(w, drag.fromShape, d.toShape, drag.direction, d.toDirection),
             drag.fromShape, d.toShape,
             Options(drag.direction, d.toDirection)).w
    ELSE w

(* upHandler without the removal of the overlay and of the two handlers.   *)
upHandlerStaying(w, drag, target, pointer) ==
    hideConnectionHandles(
        Commit(w, drag, Detect(w, drag, findTarget(w, target), pointer)))

(* upHandler of one drag: the overlay and the two handlers are removed,    *)
(* the target is detected, the connector created, the handles hidden.      *)
upHandler(w, drag, target, pointer) ==
    hideConnectionHandles(
        Commit([w EXCEPT !.drags = RemoveAll(@, drag)], drag,
               Detect(w, drag, findTarget(w, target), pointer)))

RECURSIVE FireMove(_, _, _)
FireMove(w, ds, target) ==
    IF ds = << >> \/ ~Ready(w) THEN w
    ELSE FireMove(moveHandler(w, Head(ds), target), Tail(ds), target)

RECURSIVE FireUp(_, _, _, _)
(* canvas.fire('mouse:up'): every registered upHandler runs.               *)
FireUp(w, ds, target, pointer) ==
    IF ds = << >> \/ ~Ready(w) THEN w
    ELSE FireUp(upHandler(w, Head(ds), target, pointer), Tail(ds), target, pointer)

(* ---------------------------------------------------------------------- *)
(* Load, delete, undo, redo                                                *)
(* ---------------------------------------------------------------------- *)
RECURSIVE RemoveVisuals(_, _)
RemoveVisuals(w, ids) ==
    IF ids = << >> \/ ~Ready(w) THEN w
    ELSE RemoveVisuals(ConnectorRemove(w, Head(ids)), Tail(ids))

(* ConnectorManager.clearAll                                               *)
clearAll(w) == [RemoveVisuals(w, w.connectors) EXCEPT !.connectors = << >>]

(* shapeMap.get(id): the last shape of the list that carries the id.       *)
ShapeById(w, shapeList, id) ==
    IF \A i \in 1..Len(shapeList) : w.shapes[shapeList[i]].id # id THEN NoShape
    ELSE shapeList[CHOOSE i \in 1..Len(shapeList) :
                      /\ w.shapes[shapeList[i]].id = id
                      /\ \A j \in (i + 1)..Len(shapeList) : w.shapes[shapeList[j]].id # id]

(* The body of fromJSON's forEach for one saved connector.                 *)
CreateFrom(w, r, fromShape, toShape) ==
    IF fromShape # NoShape /\ toShape # NoShape
    THEN createConnector(w, fromShape, toShape,
             [fromPoint |-> r.fromPoint, toPoint |-> r.toPoint,
              fromDirection |-> "", toDirection |-> "",
              waypointAdjustments |-> r.waypointAdjustments]).w
    ELSE w

RECURSIVE CreateEachAborting(_, _, _)
(* The loop given up at the first record whose shape is missing.           *)
CreateEachAborting(w, data, shapeList) ==
    IF data = << >> \/ ~Ready(w) THEN w
    ELSE IF NoShape \in {ShapeById(w, shapeList, Head(data).fromShapeId),
                         ShapeById(w, shapeList, Head(data).toShapeId)}
    THEN w
    ELSE CreateEachAborting(CreateFrom(w, Head(data),
                                       ShapeById(w, shapeList, Head(data).fromShapeId),
                                       ShapeById(w, shapeList, Head(data).toShapeId)),
                            Tail(data), shapeList)

RECURSIVE CreateEach(_, _, _)
CreateEach(w, data, shapeList) ==
    IF data = << >> \/ ~Ready(w) THEN w
    ELSE CreateEach(CreateFrom(w, Head(data),
                               ShapeById(w, shapeList, Head(data).fromShapeId),
                               ShapeById(w, shapeList, Head(data).toShapeId)),
                    Tail(data), shapeList)

(* ConnectorManager.fromJSON                                               *)
fromJSON(w, data, shapeList) == CreateEach(clearAll(w), data, shapeList)

RECURSIVE ClearObjects(_)
(* canvas.clear() removes the objects one by one, firing object:removed.   *)
ClearObjects(w) ==
    IF w.canvasObjs = << >> \/ ~Ready(w) THEN w
    ELSE ClearObjects(saveCanvasState([w EXCEPT !.canvasObjs = Tail(@)]))

(* A shape object with no handler and no connector reference yet.          *)
NewShape(id, b) ==
    [id |-> id, left |-> b.left, top |-> b.top, width |-> b.width, height |-> b.height,
     handlers |-> << >>, outgoing |-> << >>, incoming |-> << >>]

(* The object revived from one saved object: a new shape object, or a      *)
(* plain text / circle.                                                    *)
Revive(w, o) ==
    IF o.k = "shape"
    THEN canvasAdd([w EXCEPT !.nextId = @ + 1,
                             !.shapes = Put(@, w.nextId, NewShape(o.id, o))],
                   ShapeItem(w.nextId))
    ELSE canvasAdd(w, Item(o.k, 0, "", o.left, o.top))

RECURSIVE InsertObjects(_, _)
(* The objects of a saved state are inserted one by one: object:added.     *)
InsertObjects(w, objs) ==
    IF objs = << >> \/ ~Ready(w) THEN w
    ELSE InsertObjects(Revive(w, Head(objs)), Tail(objs))

ShapeList(objs) ==
    [i \in 1..Len(SelectSeq(objs, LAMBDA o : o.k = "shape")) |->
        SelectSeq(objs, LAMBDA o : o.k = "shape")[i].ref]

(* The callback of canvas.loadFromJSON.                                    *)
RestoreConnectors(w, state) ==
    IF Len(state.connectors) > 0
    THEN fromJSON(w, state.connectors, ShapeList(w.canvasObjs))
    ELSE w

(* loadCanvasState for the state format {canvas, connectors}.              *)
loadCanvasState(w, state) ==
    RestoreConnectors(
        InsertObjects(ClearObjects(discardActiveObject(w)), state.objects),
        state)

(* StateManager.undo                                                       *)
undo(w) ==
    [w EXCEPT !.undoStack = SubSeq(@, 1, Len(@) - 1),
              !.redoStack = IF w.currentState # << >>
                            THEN Append(@, w.currentState[1]) ELSE @,
              !.currentState = <<Last(w.undoStack)>>]

(* StateManager.redo                                                       *)
redo(w) ==
    [w EXCEPT !.redoStack = SubSeq(@, 1, Len(@) - 1),
              !.undoStack = IF w.currentState # << >>
                            THEN Append(@, w.currentState[1]) ELSE @,
              !.currentState = <<Last(w.redoStack)>>]

handleUndo(w) ==
    IF w.undoStack = << >> THEN w ELSE loadCanvasState(undo(w), Last(w.undoStack))

handleRedo(w) ==
    IF w.redoStack = << >> THEN w ELSE loadCanvasState(redo(w), Last(w.redoStack))

(* The body of handleDelete's forEach for one active object.               *)
DeleteObject(w, obj) ==
    IF obj.k \in {"path", "arrow"} THEN removeConnector(w, obj.ref)
    ELSE IF obj.k = "shape"
    THEN canvasRemove(removeConnectorsForShape(w, obj.ref), obj)
    ELSE canvasRemove(w, obj)

RECURSIVE DeleteEach(_, _)
DeleteEach(w, objs) ==
    IF objs = << >> \/ ~Ready(w) THEN w
    ELSE DeleteEach(DeleteObject(w, Head(objs)), Tail(objs))

(* handleDelete                                                            *)
handleDelete(w) ==
    IF Len(w.active) > 0 THEN discardActiveObject(DeleteEach(w, w.active)) ELSE w

(* ---------------------------------------------------------------------- *)
(* Selection, hovering, shape transforms                                   *)
(* ---------------------------------------------------------------------- *)
(* handleSelectionChange for one selected object.                          *)
handleSelectionChange(w, obj) ==
    IF obj.k \in {"path", "arrow"} THEN showEndpointHandles(w, obj.ref)
    ELSE IF obj.k = "shape" THEN showConnectionHandles(w, obj.ref)
    ELSE w

(* canvas.setActiveObject(obj): selection:created / selection:updated.     *)
setActiveObject(w, obj) ==
    IF w.active = <<obj>> THEN w
    ELSE handleSelectionChange([w EXCEPT !.active = <<obj>>], obj)

(* handleMouseOver                                                         *)
handleMouseOver(w, target) ==
    IF w.active # << >> THEN w
    ELSE IF target.k = "shape" THEN showConnectionHandles(w, target.ref)
    ELSE w

(* The timer callback of handleMouseOut.                                   *)
handleMouseOutTimer(w, currentTarget) ==
    IF currentTarget.k # "handle" /\ w.active = << >>
    THEN hideConnectionHandles(w)
    ELSE w

(* The grid is hidden when the application starts.                         *)
isGridVisible == FALSE

(* snapToGrid: Math.round(value / gridSize) * gridSize                     *)
snapToGrid(value, gridSize) == ((2 * value + gridSize) \div (2 * gridSize)) * gridSize

(* handleObjectMoving for a shape                                          *)
handleObjectMoving(w, oid) ==
    IF isGridVisible
    THEN [w EXCEPT !.shapes[oid].left = snapToGrid(@, GRID_SIZE),
                   !.shapes[oid].top  = snapToGrid(@, GRID_SIZE)]
    ELSE w

(* handleObjectModified                                                    *)
handleObjectModified(w) == saveCanvasState(w)

(* shape.fire(event) for moving, scaling, rotating and modified.           *)
fire(w, oid) == FireHandlers(w, w.shapes[oid].handlers)

(* The transform sets the shape's geometry; object:moving runs for a move. *)
Transformed(w, oid, kind, b) ==
    IF kind = "moving"
    THEN handleObjectMoving(
             [w EXCEPT !.shapes[oid].left = b.left, !.shapes[oid].top = b.top], oid)
    ELSE [w EXCEPT !.shapes[oid].left = b.left, !.shapes[oid].top = b.top,
                   !.shapes[oid].width = b.width, !.shapes[oid].height = b.height]

(* One tick of a move / scale transform of a shape followed by the         *)
(* release: the canvas event, then the event on the shape, then            *)
(* object:modified and the shape's modified event.                         *)
TransformShape(w, oid, kind, b) ==
    fire(handleObjectModified(fire(Transformed(w, oid, kind, b), oid)), oid)

(* A shape is grabbed, which makes it the active object, and transformed.  *)
dragShape(w, oid, kind, ddx, ddy, ddw) ==
    Let(setActiveObject(w, ShapeItem(oid)),
        LAMBDA w1 : TransformShape(w1, oid, kind,
                        [left |-> w1.shapes[oid].left + ddx,
                         top |-> w1.shapes[oid].top + ddy,
                         width |-> w1.shapes[oid].width + ddw,
                         height |-> w1.shapes[oid].height]))

(* addShapeToCanvas: a new shape is added and made the active object.      *)
addShapeToCanvas(w, b) ==
    setActiveObject(
        canvasAdd([w EXCEPT !.nextId = @ + 1,
                            !.shapes = Put(@, w.nextId, NewShape(w.nextId, b))],
                  ShapeItem(w.nextId)),
        ShapeItem(w.nextId))

(* ---------------------------------------------------------------------- *)
(* Waypoint drag                                                           *)
(* ---------------------------------------------------------------------- *)
(* currentSegments after the two ends of the segment have been moved.      *)
MoveSegment(currentSegments, segmentIndex, isHorizontal, isVertical, pos) ==
    [i \in 1..Len(currentSegments) |->
        IF i \in {segmentIndex + 1, segmentIndex + 2} THEN
            IF isHorizontal THEN Pt(currentSegments[i].x, pos.y)
            ELSE IF isVertical THEN Pt(pos.x, currentSegments[i].y)
            ELSE currentSegments[i]
        ELSE currentSegments[i]]

(* The controls of the segment are put back at its middle.                 *)
Reposition(ctls, segmentIndex, isHorizontal, isVertical, midX, midY) ==
    [j \in 1..Len(ctls) |->
        IF ctls[j].segmentIndex # segmentIndex THEN ctls[j]
        ELSE IF isHorizontal THEN
            [ctls[j] EXCEPT !.left = midX,
                            !.top = IF ctls[j].text = "up" THEN midY - 15 ELSE midY + 15]
        ELSE IF isVertical THEN
            [ctls[j] EXCEPT !.left = IF ctls[j].text = "left" THEN midX - 15 ELSE midX + 15,
                            !.top = midY]
        ELSE ctls[j]]

(* The canvas objects, with the controls of a connector at their new place *)
Replaced(objs, cid, old, new) ==
    [i \in 1..Len(objs) |->
        IF \E j \in 1..Len(old) : objs[i] = WpItem(cid, old[j])
        THEN WpItem(cid, new[CHOOSE j \in 1..Len(old) : objs[i] = WpItem(cid, old[j])])
        ELSE objs[i]]

WaypointMoved(w, cid, segmentIndex, isHorizontal, isVertical, adjustment, old, moved) ==
    Let(Reposition(old, segmentIndex, isHorizontal, isVertical,
                   (moved[segmentIndex + 1].x + moved[segmentIndex + 2].x) \div 2,
                   (moved[segmentIndex + 1].y + moved[segmentIndex + 2].y) \div 2),
        LAMBDA new :
            [w EXCEPT
               !.conns[cid].waypointAdjustments =
                   IF isHorizontal \/ isVertical
                   THEN Put(@, segmentIndex, adjustment)
                   ELSE @,
               !.conns[cid].path = PathString(moved),
               !.conns[cid].arrow = ArrowFromPath(moved),
               !.conns[cid].waypointCircles = new,
               !.canvasObjs = Replaced(@, cid, old, new),
               !.active = Replaced(@, cid, old, new)])

WaypointAt(w, cid, segmentIndex, isHorizontal, isVertical, orig, old, currentSegments, pos) ==
    WaypointMoved(w, cid, segmentIndex, isHorizontal, isVertical,
                  IF isHorizontal THEN [offsetX |-> 0, offsetY |-> pos.y - orig.y]
                  ELSE [offsetX |-> pos.x - orig.x, offsetY |-> 0],
                  old,
                  MoveSegment(currentSegments, segmentIndex, isHorizontal, isVertical, pos))

(* Connector.updatePathFromWaypoint for the k-th waypoint control: the     *)
(* orientation of the segment is read from the original automatic path,    *)
(* the new coordinate from the centre of the control.                      *)
updatePathFromWaypoint(w, cid, k) ==
    WaypointAt(w, cid, w.conns[cid].waypointCircles[k].segmentIndex,
               IsHorizontalSeg(parsePathSegments(w.conns[cid].originalPathString),
                               w.conns[cid].waypointCircles[k].segmentIndex),
               IsVerticalSeg(parsePathSegments(w.conns[cid].originalPathString),
                             w.conns[cid].waypointCircles[k].segmentIndex),
               parsePathSegments(w.conns[cid].originalPathString)
                   [w.conns[cid].waypointCircles[k].segmentIndex + 1],
               w.conns[cid].waypointCircles,
               parsePathSegments(w.conns[cid].path),
               Pt(w.conns[cid].waypointCircles[k].left, w.conns[cid].waypointCircles[k].top))

ControlsWith(w, cid, old, new) ==
    [w EXCEPT !.conns[cid].waypointCircles = new,
              !.canvasObjs = Replaced(@, cid, old, new),
              !.active = Replaced(@, cid, old, new)]

(* The drag puts the centre of the k-th control at pos.                    *)
ControlAt(w, cid, k, pos) ==
    ControlsWith(w, cid, w.conns[cid].waypointCircles,
                 [w.conns[cid].waypointCircles EXCEPT ![k].left = pos.x, ![k].top = pos.y])

(* A drag of a waypoint control: it becomes the active object, its moving  *)
(* event runs updatePathFromWaypoint, the release fires object:modified.   *)
dragWaypoint(w, cid, k, pos) ==
    handleObjectModified(
        updatePathFromWaypoint(
            ControlAt(setActiveObject(w, WpItem(cid, w.conns[cid].waypointCircles[k])),
                      cid, k, pos),
            cid, k))

(* ---------------------------------------------------------------------- *)
(* Inputs of the user events                                               *)
(* ---------------------------------------------------------------------- *)
(* Sides of the handles a drag is started on, and released on.             *)
DragDirs == {"top", "left"}

DropDirs == {"bottom-left", "top"}

(* Displacements of a shape drag, and of a waypoint control drag.          *)
MoveDeltas == {Pt(20, 0), Pt(0, 40)}

WaypointDeltas == {20, 0 - 40}

(* Pointer positions inside a shape: near its right side, near its bottom. *)
PointerSpots(b) ==
    {Pt(b.left + b.width - 5, b.top + b.height \div 2),
     Pt(b.left + b.width \div 2, b.top + b.height - 5)}

(* The diagrams the behaviours start from.  Three 80 x 40 shapes are added *)
(* one after the other with addShapeToCanvas; then a connector is drawn    *)
(* from the second to the first, then one from the third to the first.     *)
Box(px, py) == [left |-> px, top |-> py, width |-> 80, height |-> 40]

EmptyWorld ==
    [shapes |-> << >>, conns |-> << >>, canvasObjs |-> << >>, active |-> << >>,
     connectors |-> << >>, connectionHandles |-> << >>, drags |-> << >>,
     undoStack |-> << >>, redoStack |-> << >>, currentState |-> << >>, nextId |-> 1]

ThreeShapes ==
    addShapeToCanvas(
        addShapeToCanvas(addShapeToCanvas(EmptyWorld, Box(0, 0)), Box(200, 20)),
        Box(20, 200))

(* A shape is clicked, a drag is started on its handle of side dir and     *)
(* released at pointer inside the shape to.                                *)
Released(w, to, pointer) == FireUp(w, w.drags, ShapeItem(to), pointer)

Grabbed(w, from, dir) == startConnectorDrag(w, from, HandleItem(w, from, dir))

Drawn(w, from, dir, to, pointer) ==
    Released(Grabbed(setActiveObject(w, ShapeItem(from)), from, dir), to, pointer)

OneConnector == Drawn(ThreeShapes, 2, "left", 1, Pt(75, 20))

TwoConnectors == Drawn(OneConnector, 3, "left", 1, Pt(40, 55))

(* A shape is added and deleted again.                                     *)
Emptied == handleDelete(addShapeToCanvas(EmptyWorld, Box(0, 0)))

(* With one connector drawn, a drag from the top handle of the third shape *)
(* is under way.                                                           *)
Dragging == Grabbed(setActiveObject(OneConnector, ShapeItem(3)), 3, "top")

(* With one connector drawn, its waypoint control has been dragged 40 up   *)
(* and the second shape then moved 40 down, which reroutes the connector   *)
(* and puts its controls on another segment.                               *)
Rerouted == dragShape(dragWaypoint(OneConnector, 4, 1, Pt(140, 0)), 2, "moving", 0, 40, 0)

(* With the three shapes alone, a drag from the handle at the left of the  *)
(* top side of the third shape is under way.                               *)
DraggingCorner == Grabbed(setActiveObject(ThreeShapes, ShapeItem(3)), 3, "top-left")

Diagrams ==
    {ThreeShapes, OneConnector, TwoConnectors, Emptied, Dragging, Rerouted, DraggingCorner}

(* ---------------------------------------------------------------------- *)
(* Actions: one per user event                                             *)
(* ---------------------------------------------------------------------- *)
(* The variables hold the world w.                                         *)
Holds(w) ==
    /\ shapes = w.shapes
    /\ conns = w.conns
    /\ canvasObjs = w.canvasObjs
    /\ active = w.active
    /\ connectors = w.connectors
    /\ connectionHandles = w.connectionHandles
    /\ drags = w.drags
    /\ undoStack = w.undoStack
    /\ redoStack = w.redoStack
    /\ currentState = w.currentState
    /\ nextId = w.nextId

Event(op, target, pointer) ==
    [op |-> op, target |-> target, pointer |-> pointer, drags |-> drags]

(* The next state is the world w, one user event later.                    *)
Become(w) ==
    /\ shapes' = w.shapes
    /\ conns' = w.conns
    /\ canvasObjs' = w.canvasObjs
    /\ active' = w.active
    /\ connectors' = w.connectors
    /\ connectionHandles' = w.connectionHandles
    /\ drags' = w.drags
    /\ undoStack' = w.undoStack
    /\ redoStack' = w.redoStack
    /\ currentState' = w.currentState
    /\ nextId' = w.nextId
    /\ ops' = ops + 1

Init ==
    /\ ops = 0
    /\ last = [op |-> "load", target |-> NoTarget, pointer |-> Pt(0, 0), drags |-> << >>]
    /\ \E w \in Diagrams : Holds(w)

ShapeItems == {o \in SeqToSet(canvasObjs) : o.k = "shape"}

(* The pointer moves over a shape: mouse:over, then mouse:move.            *)
pointerMove(w, t) == Let(handleMouseOver(w, t), LAMBDA w1 : FireMove(w1, w1.drags, t))

PointerMove ==
    /\ ops < MaxOps
    /\ \E t \in ShapeItems :
          /\ Become(pointerMove(World, t))
          /\ last' = Event("PointerMove", t, Pt(0, 0))

(* The timer set by a mouse:out expires away from every handle.            *)
MouseOutTimer ==
    /\ ops < MaxOps
    /\ connectionHandles # << >>
    /\ Become(handleMouseOutTimer(World, NoTarget))
    /\ last' = Event("MouseOutTimer", NoTarget, Pt(0, 0))

(* Mouse down on a connection handle.                                      *)
HandleMouseDown ==
    /\ ops < MaxOps
    /\ Len(drags) < MaxDrags
    /\ \E h \in SeqToSet(connectionHandles) :
          /\ h.aux \in DragDirs
          /\ h \in SeqToSet(canvasObjs)
          /\ Become(startConnectorDrag(World, h.ref, h))
          /\ last' = Event("HandleMouseDown", h, Pt(h.left, h.top))

(* Where a pointer-up may happen: over nothing, inside a shape, on one of  *)
(* the connection handles shown.                                           *)
Releases ==
    {[target |-> NoTarget, pointer |-> Pt(0, 0)]}
    \cup {[target |-> t, pointer |-> p] :
             t \in ShapeItems, p \in UNION {PointerSpots(Bounds(shapes[o.ref])) : o \in ShapeItems}}
    \cup {[target |-> h, pointer |-> Pt(h.left, h.top)] :
             h \in {x \in SeqToSet(connectionHandles) :
                       x.aux \in DropDirs /\ x \in SeqToSet(canvasObjs)}}

(* Mouse up while connector drags are pending.                             *)
PointerUp ==
    /\ ops < MaxOps
    /\ drags # << >>
    /\ Len(connectors) < MaxConnectors
    /\ \E r \in Releases :
          /\ r.target.k = "shape" => r.pointer \in PointerSpots(Bounds(shapes[r.target.ref]))
          /\ Become(FireUp(World, drags, r.target, r.pointer))
          /\ last' = Event("PointerUp", r.target, r.pointer)

(* A click on a shape or on a connector's line.                            *)
Select ==
    /\ ops < MaxOps
    /\ drags = << >>
    /\ \E o \in SeqToSet(canvasObjs) :
          /\ o.k \in {"shape", "path"}
          /\ active # <<o>>
          /\ Become(setActiveObject(World, o))
          /\ last' = Event("Select", o, Pt(0, 0))

(* A click on the empty canvas.                                            *)
Deselect ==
    /\ ops < MaxOps
    /\ drags = << >>
    /\ active # << >>
    /\ Become(discardActiveObject(World))
    /\ last' = Event("Deselect", NoTarget, Pt(0, 0))

(* A shape is dragged to another place and released.                       *)
MoveShape ==
    /\ ops < MaxOps
    /\ drags = << >>
    /\ \E t \in ShapeItems : \E d \in MoveDeltas :
          /\ Become(dragShape(World, t.ref, "moving", d.x, d.y, 0))
          /\ last' = Event("MoveShape", t, d)

(* A shape is made 80 wider by its right control and released.             *)
ScaleShape ==
    /\ ops < MaxOps
    /\ drags = << >>
    /\ \E t \in ShapeItems :
          /\ shapes[t.ref].width < 160
          /\ Become(dragShape(World, t.ref, "scaling", 0, 0, 80))
          /\ last' = Event("ScaleShape", t, Pt(80, 0))

(* The place a waypoint control is dragged to: d across its segment.       *)
DragTo(ctl, seg, d) ==
    IF ctl.waypointDirection = "vertical" THEN Pt(ctl.left, seg.y + d) ELSE Pt(seg.x + d, ctl.top)

(* A waypoint control is dragged across its segment and released.          *)
WaypointDrag ==
    /\ ops < MaxOps
    /\ drags = << >>
    /\ \E cid \in SeqToSet(connectors) :
       \E k \in 1..Len(conns[cid].waypointCircles) :
       \E d \in WaypointDeltas :
          /\ WpItem(cid, conns[cid].waypointCircles[k]) \in SeqToSet(canvasObjs)
          /\ Become(dragWaypoint(World, cid, k,
                 DragTo(conns[cid].waypointCircles[k],
                        parsePathSegments(conns[cid].path)
                            [conns[cid].waypointCircles[k].segmentIndex + 1],
                        d)))
          /\ last' = Event("WaypointDrag", WpItem(cid, conns[cid].waypointCircles[k]),
                           Pt(d, d))

(* Delete / Backspace                                                      *)
Delete ==
    /\ ops < MaxOps
    /\ active # << >>
    /\ Become(handleDelete(World))
    /\ last' = Event("Delete", active[1], Pt(0, 0))

Undo ==
    /\ ops < MaxOps
    /\ undoStack # << >>
    /\ Become(handleUndo(World))
    /\ last' = Event("Undo", NoTarget, Pt(0, 0))

Redo ==
    /\ ops < MaxOps
    /\ redoStack # << >>
    /\ Become(handleRedo(World))
    /\ last' = Event("Redo", NoTarget, Pt(0, 0))

(* The Escape key: the only handler is the one of activateConnectorMode,   *)
(* which removes the connector-mode notification.                          *)
Escape ==
    /\ ops < MaxOps
    /\ Become(World)
    /\ last' = Event("Escape", NoTarget, Pt(0, 0))

Next ==
    \/ PointerMove
    \/ MouseOutTimer
    \/ HandleMouseDown
    \/ PointerUp
    \/ Select
    \/ Deselect
    \/ MoveShape
    \/ ScaleShape
    \/ WaypointDrag
    \/ Delete
    \/ Undo
    \/ Redo
    \/ Escape

Spec == Init /\ [][Next]_vars

(* ---------------------------------------------------------------------- *)
(* Properties                                                              *)
(* ---------------------------------------------------------------------- *)
(* After the step, connector c is neither in the registry nor in the       *)
(* reference lists of its two endpoint shapes.                             *)
Forgotten(c) ==
    /\ c \notin SeqToSet(connectors')
    /\ c \notin SeqToSet(shapes'[conns[c].fromShape].outgoing)
    /\ c \notin SeqToSet(shapes'[conns[c].toShape].incoming)

(* C1: deleting a shape removes every connector that references the shape  *)
(* as source or target: after the Delete none of them is in the registry   *)
(* and none is in the outgoing / incoming list of the shape at its other   *)
(* end.                                                                    *)
C1_DeleteRemovesEveryConnector ==
    [][(last'.op = "Delete" /\ last'.target.k = "shape") =>
          \A c \in SeqToSet(connectors) :
             last'.target.ref \in {conns[c].fromShape, conns[c].toShape} => Forgotten(c)]_vars

(* A shape with two connectors has been deleted.                           *)
DeletedShapeWithTwoConnectors ==
    /\ last.op = "Delete" /\ last.target.k = "shape"
    /\ Cardinality({c \in DOMAIN conns :
                       last.target.ref \in {conns[c].fromShape, conns[c].toShape}}) = 2
    /\ connectors = << >>

(* C2: in every reachable state every connector in the registry has two    *)
(* distinct endpoint shapes, both of them on the canvas.                   *)
C2_EndpointsDistinctAndLive ==
    \A c \in SeqToSet(connectors) :
       /\ conns[c].fromShape # conns[c].toShape
       /\ conns[c].fromShape \in LiveShapes(World)
       /\ conns[c].toShape \in LiveShapes(World)

(* The resolved coordinate of a connector's from-point and to-point.       *)
ResolvedFrom(c) == getFixedConnectionPoint(Bounds(shapes[conns[c].fromShape]), conns[c].fromPoint)

ResolvedTo(c) == getFixedConnectionPoint(Bounds(shapes[conns[c].toShape]), conns[c].toPoint)

PointOfSegment(seg) == Pt(seg.x, seg.y)

(* C3: in every reachable state the polyline of every connector starts at  *)
(* the resolved coordinate of its from-point and ends at the resolved      *)
(* coordinate of its to-point.                                             *)
C3_PolylineEndsAtResolvedPoints ==
    \A c \in SeqToSet(connectors) :
       /\ PointOfSegment(Head(parsePathSegments(conns[c].path))) = ResolvedFrom(c)
       /\ PointOfSegment(Last(parsePathSegments(conns[c].path))) = ResolvedTo(c)

(* The endpoint pairs createConnector refuses: one missing, or both the    *)
(* same shape.                                                             *)
RefusedPairs ==
    {<<NoShape, s>> : s \in DOMAIN shapes \cup {NoShape}}
    \cup {<<s, NoShape>> : s \in DOMAIN shapes}
    \cup {<<s, s>> : s \in DOMAIN shapes}

(* C4: createConnector with a missing endpoint or with the same shape as   *)
(* both endpoints returns null and leaves the registry and the shapes'     *)
(* outgoing / incoming lists (the whole state) as they are.                *)
C4_RefusedEndpointsChangeNothing ==
    \A p \in RefusedPairs : \A d \in {"", "left"} :
       createConnector(World, p[1], p[2], Options(d, d)) = [w |-> World, ret |-> 0]

(* A drag has been released on a handle of its own source shape, so that   *)
(* upHandler has called createConnector with that shape as both endpoints. *)
ReleasedOnOwnHandle ==
    /\ last.op = "PointerUp" /\ last.target.k = "handle"
    /\ Len(last.drags) = 1
    /\ last.drags[1].fromShape = last.target.ref

(* The shape a pointer target belongs to: the shape itself, the parent of  *)
(* a connection handle, or none.                                           *)
TargetShape(t) == IF t.k \in {"shape", "handle"} THEN t.ref ELSE NoShape

(* The sides of the rectangle b whose middle is nearest to the point p.    *)
NearestSides(b, p) ==
    {d \in BaseDirs :
        \A e \in BaseDirs : Dist2(getFixedConnectionPoint(b, PointMap[d]), p)
                               <= Dist2(getFixedConnectionPoint(b, PointMap[e]), p)}

(* The sides a release on target t at pointer p detects on that target.    *)
DetectedSides(t, p) ==
    IF t.k = "handle" THEN {t.aux} ELSE NearestSides(Bounds(shapes[t.ref]), p)

(* C5: a pointer-up that ends the one pending drag, started on a handle of *)
(* shape S, over another shape T or over a handle of T adds exactly one    *)
(* connector to the registry: it runs from S to T, its from-side is the    *)
(* side of the handle the drag started on, its to-side the side detected   *)
(* on T (the handle released on, otherwise the side nearest the pointer).  *)
C5_ReleaseOnOtherShapeCommits ==
    [][(/\ last'.op = "PointerUp"
        /\ Len(drags) = 1
        /\ TargetShape(last'.target) \notin {NoShape, drags[1].fromShape})
       => /\ Len(connectors') = Len(connectors) + 1
          /\ SubSeq(connectors', 1, Len(connectors)) = connectors
          /\ Last(connectors') \notin DOMAIN conns
          /\ conns'[Last(connectors')].fromShape = drags[1].fromShape
          /\ conns'[Last(connectors')].toShape = TargetShape(last'.target)
          /\ conns'[Last(connectors')].fromPoint = PointMap[drags[1].direction]
          /\ \E d \in DetectedSides(last'.target, last'.pointer) :
                conns'[Last(connectors')].toPoint = PointMap[d]]_vars

(* A drag has been released on a handle of another shape and the connector *)
(* ends on that handle's side.                                             *)
ReleasedOnOtherHandle ==
    /\ last.op = "PointerUp" /\ last.target.k = "handle"
    /\ Len(last.drags) = 1
    /\ last.drags[1].fromShape # last.target.ref
    /\ connectors # << >>
    /\ conns[Last(connectors)].fromShape = last.drags[1].fromShape
    /\ conns[Last(connectors)].toPoint = PointMap[last.target.aux]

(* C6: a pointer-up over empty space, over the source shape or over one of *)
(* the source shape's handles creates no connector and moves no shape (the *)
(* registry, the connector objects and the shapes stay as they are), and   *)
(* leaves no drag pending: preview and handlers are gone.                  *)
C6_ReleaseElsewhereCancels ==
    [][(/\ last'.op = "PointerUp"
        /\ \A d \in SeqToSet(drags) : TargetShape(last'.target) \in {NoShape, d.fromShape})
       => /\ connectors' = connectors
          /\ conns' = conns
          /\ shapes' = shapes
          /\ drags' = << >>]_vars

(* A drag has been released over its own source shape.                     *)
ReleasedOnSourceShape ==
    /\ last.op = "PointerUp" /\ last.target.k = "shape"
    /\ Len(last.drags) = 1
    /\ last.drags[1].fromShape = last.target.ref
    /\ drags = << >>

(* C7: Escape pressed while a connector drag is pending cancels the drag:  *)
(* afterwards no drag is pending.                                          *)
C7_EscapeCancelsDrag ==
    [][(last'.op = "Escape" /\ drags # << >>) => drags' = << >>]_vars

(* The step changes the position or the size of shape s.                   *)
Changed(s) == Bounds(shapes'[s]) # Bounds(shapes[s])

(* After the step the displayed path of connector c is the path routed for *)
(* the shapes as they now are, with the stored adjustments applied.        *)
Recomputed(c) ==
    conns'[c].path = Adjusted(calculatePath(World', conns'[c]).pathString,
                              conns'[c].waypointAdjustments)

(* C8: whenever a step changes the position or size of an endpoint shape   *)
(* of a connector in the registry, that connector's path is recomputed.    *)
C8_PathRecomputedOnShapeChange ==
    [][\A c \in SeqToSet(connectors) \cap SeqToSet(connectors') :
          (Changed(conns[c].fromShape) \/ Changed(conns[c].toShape)) => Recomputed(c)]_vars

(* What update must leave the same: polyline, arrow, adjustments, number   *)
(* of waypoint controls.                                                   *)
Recomputation(c) ==
    [path |-> c.path, arrow |-> c.arrow, waypointAdjustments |-> c.waypointAdjustments,
     controls |-> Len(c.waypointCircles)]

(* C9: with the shapes where they are, a second and a third call of a      *)
(* connector's update leave the polyline, the arrow, the stored            *)
(* adjustments and the number of waypoint controls the first call left.    *)
C9_UpdateIdempotent ==
    \A c \in SeqToSet(connectors) :
       Let(update(World, c),
           LAMBDA once :
              Let(update(once, c),
                  LAMBDA twice :
                     /\ Recomputation(twice.conns[c]) = Recomputation(once.conns[c])
                     /\ Recomputation(update(twice, c).conns[c])
                           = Recomputation(once.conns[c])))

(* A shape has been moved or scaled whose connector carries an adjustment  *)
(* that displaces its path from the automatic one.                         *)
UpdatedWithAdjustment ==
    /\ last.op \in {"MoveShape", "ScaleShape"}
    /\ \E c \in SeqToSet(connectors) :
          /\ last.target.ref \in {conns[c].fromShape, conns[c].toShape}
          /\ c \in SeqToSet(shapes[last.target.ref].handlers)
          /\ DOMAIN conns[c].waypointAdjustments # {}
          /\ conns[c].path # conns[c].originalPathString

DecorationsLeft(c) ==
    {o \in SeqToSet(canvasObjs') : o.k \in {"path", "arrow", "wp", "ep"} /\ o.ref = c}

(* The step leaves every connector other than c as it was: its registry    *)
(* entry and its place in the registry.                                    *)
OthersKept(c) ==
    /\ connectors' = RemoveAll(connectors, c)
    /\ \A d \in SeqToSet(connectors) \ {c} : conns'[d] = conns[d]

(* The step takes c, and nothing else, out of the reference lists of every *)
(* shape, and leaves the geometry of the shapes alone.                     *)
ReferencesKept(c) ==
    \A s \in DOMAIN shapes :
       /\ shapes'[s].outgoing = RemoveAll(shapes[s].outgoing, c)
       /\ shapes'[s].incoming = RemoveAll(shapes[s].incoming, c)
       /\ Bounds(shapes'[s]) = Bounds(shapes[s])

(* The step takes the handlers of c, and no other handler, off every       *)
(* shape.                                                                  *)
HandlersKept(c) ==
    \A s \in DOMAIN shapes : shapes'[s].handlers = RemoveAll(shapes[s].handlers, c)

RemovedExactly(c) ==
    /\ Forgotten(c)
    /\ DecorationsLeft(c) = {}
    /\ OthersKept(c)
    /\ ReferencesKept(c)
    /\ HandlersKept(c)

(* C11: removeConnector(id), run by a Delete on the connector's line,      *)
(* removes exactly that connector: it leaves the registry and the          *)
(* reference lists of its two shapes, none of its decorations stays on the *)
(* canvas, every other connector's registry entry and reference-list       *)
(* entries are unchanged, and the shapes keep their geometry and the       *)
(* handlers the removed connector did not install.                         *)
C11_RemoveConnectorRemovesExactlyThat ==
    [][(last'.op = "Delete" /\ last'.target.k = "path"
           /\ last'.target.ref \in SeqToSet(connectors))
          => RemovedExactly(last'.target.ref)]_vars

(* The registry serialized by toJSON and rebuilt by fromJSON against the   *)
(* shapes on the canvas.                                                   *)
RoundTrip(w) == fromJSON(w, ManagerToJSON(w), ShapeList(w.canvasObjs))

(* C12: serializing the registry and deserializing the result against the  *)
(* same shapes gives back every connector with the same id, endpoint shape *)
(* ids, fixed points, routing style, stroke attributes, waypoint           *)
(* adjustments and label.                                                  *)
C12_SerializeRoundTrips == ManagerToJSON(RoundTrip(World)) = ManagerToJSON(World)

(* The shapes on the canvas, without shape s.                              *)
ShapesWithout(w, s) == SelectSeq(ShapeList(w.canvasObjs), LAMBDA x : x # s)

(* The record's two shape ids are ids of shapes of the list.               *)
Resolvable(w, r, shapeList) ==
    {r.fromShapeId, r.toShapeId} \subseteq {w.shapes[shapeList[i]].id : i \in 1..Len(shapeList)}

(* A batch of records without the ids, which fromJSON does not restore.    *)
Anonymous(data) == [i \in 1..Len(data) |-> [data[i] EXCEPT !.id = 0]]

(* The registry fromJSON builds from the serialized registry when shape s  *)
(* is not among the shapes supplied.                                       *)
LoadedWithout(w, s) == fromJSON(w, ManagerToJSON(w), ShapesWithout(w, s))

Crosses(obstacles, pathString) ==
    \E i \in 1..(Len(parsePathSegments(pathString)) - 1) :
       segmentIntersectsShapes(obstacles, parsePathSegments(pathString)[i],
                               parsePathSegments(pathString)[i + 1])

FromBase(c) == getBaseDirection(getDirectionFromPoint(conns[c].fromPoint))

ToBase(c) == getBaseDirection(getDirectionFromPoint(conns[c].toPoint))

(* The default path between the stubs that createOrthogonalPath hands to   *)
(* routeAroundObstacles for connector c.                                   *)
DefaultPathOf(c) ==
    DefaultMiddle(ResolvedFrom(c), ResolvedTo(c),
                  StubPoint(ResolvedFrom(c), FromBase(c)),
                  StubPoint(ResolvedTo(c), ToBase(c)), FromBase(c), ToBase(c))

(* The candidates of routeAroundObstacles for connector c, in its order.   *)
CandidatesOf(c) ==
    Alternatives(StubPoint(ResolvedFrom(c), FromBase(c)),
                 StubPoint(ResolvedTo(c), ToBase(c)), FromBase(c), ToBase(c))

(* What routeAroundObstacles returns for connector c.                      *)
RoutedOf(c) ==
    routeAroundObstacles(Obstacles(World, conns[c]),
                         StubPoint(ResolvedFrom(c), FromBase(c)),
                         StubPoint(ResolvedTo(c), ToBase(c)), FromBase(c), ToBase(c),
                         DefaultPathOf(c))

(* The candidates of connector c that cross no obstacle.                   *)
FreeCandidates(c) ==
    {i \in 1..Len(CandidatesOf(c)) : ~Crosses(Obstacles(World, conns[c]), CandidatesOf(c)[i])}

(* Connector c is routed through routeAroundObstacles (its two sides       *)
(* differ), both its shapes are on the canvas, and its default path        *)
(* crosses an obstacle.                                                    *)
DefaultCrosses(c) ==
    /\ {conns[c].fromShape, conns[c].toShape} \subseteq LiveShapes(World)
    /\ FromBase(c) # ToBase(c)
    /\ Crosses(Obstacles(World, conns[c]), DefaultPathOf(c))

(* C14: when the default path of a connector crosses an obstacle and some  *)
(* candidate of the fixed list crosses none, routeAroundObstacles returns  *)
(* the first such candidate, so the path it returns crosses no obstacle.   *)
C14_FirstFreeCandidateChosen ==
    \A c \in SeqToSet(connectors) :
       (DefaultCrosses(c) /\ FreeCandidates(c) # {}) =>
          /\ \E i \in FreeCandidates(c) :
                /\ \A j \in FreeCandidates(c) : i <= j
                /\ RoutedOf(c) = CandidatesOf(c)[i]
          /\ ~Crosses(Obstacles(World, conns[c]), RoutedOf(c))

(* The whole path calculatePath gives connector c when the path between    *)
(* the stubs is middlePath.                                                *)
AssembledOf(c, middlePath) ==
    Assemble(ResolvedFrom(c), ResolvedTo(c), StubPoint(ResolvedFrom(c), FromBase(c)),
             middlePath)

(* C15: when the default path of a connector crosses an obstacle and every *)
(* candidate crosses one too, routeAroundObstacles returns the default     *)
(* path unchanged, out of a list of at most 5 candidates, and the path     *)
(* calculated for the connector is built on that default path.             *)
C15_DefaultPathWhenNoneFree ==
    \A c \in SeqToSet(connectors) :
       (DefaultCrosses(c) /\ FreeCandidates(c) = {}) =>
          /\ Len(CandidatesOf(c)) <= 5
          /\ RoutedOf(c) = DefaultPathOf(c)
          /\ calculatePath(World, conns[c]).pathString = AssembledOf(c, DefaultPathOf(c))

(* A shape has been moved or scaled and its connector updated where the    *)
(* default path and all the candidates cross an obstacle: the connector    *)
(* carries the default path.                                               *)
UpdatedWithNoFreeCandidate ==
    /\ last.op \in {"MoveShape", "ScaleShape"}
    /\ \E c \in SeqToSet(connectors) :
          /\ c \in SeqToSet(shapes[last.target.ref].handlers)
          /\ DefaultCrosses(c)
          /\ FreeCandidates(c) = {}
          /\ conns[c].originalPathString = AssembledOf(c, DefaultPathOf(c))

(* Segment i of the points adjusted lies away from segment i of the points *)
(* fresh by the adjustment, on the axis perpendicular to the segment: y    *)
(* for a horizontal segment, x for a vertical one.                         *)
ShiftedBy(adjusted, fresh, i, adjustment) ==
    /\ i + 2 <= Len(fresh)
    /\ Len(adjusted) = Len(fresh)
    /\ IF IsHorizontalSeg(fresh, i)
       THEN /\ adjusted[i + 1].y = fresh[i + 1].y + adjustment.offsetY
            /\ adjusted[i + 2].y = fresh[i + 2].y + adjustment.offsetY
       ELSE /\ IsVerticalSeg(fresh, i)
            /\ adjusted[i + 1].x = fresh[i + 1].x + adjustment.offsetX
            /\ adjusted[i + 2].x = fresh[i + 2].x + adjustment.offsetX

(* After the step, an update of connector c with the shapes where they are *)
(* shows segment i of the freshly routed path shifted by the adjustment    *)
(* stored for i.                                                           *)
RecomputedShifted(c, i) ==
    ShiftedBy(parsePathSegments(update(World', c).conns[c].path),
              parsePathSegments(calculatePath(World', conns'[c]).pathString),
              i, conns'[c].waypointAdjustments[i])

(* The segment the waypoint controls of connector c stand on.              *)
ControlledSegment(c) == conns[c].waypointCircles[1].segmentIndex

(* C16: when a drag of a waypoint control has captured an offset for       *)
(* segment i, recomputing the connector with the shapes where they are     *)
(* gives a path whose segment i is the freshly routed segment i shifted by *)
(* exactly the stored offset on its perpendicular axis.                    *)
C16_CapturedOffsetReapplied ==
    [][(last'.op = "WaypointDrag"
           /\ ControlledSegment(last'.target.ref)
                 \in DOMAIN conns'[last'.target.ref].waypointAdjustments)
          => RecomputedShifted(last'.target.ref, ControlledSegment(last'.target.ref))]_vars

(* The shift the adjustment stored for segment k gives the points of that  *)
(* segment in the path fresh: none when the path has no segment k or when  *)
(* segment k no longer has the orientation the offset was stored for.      *)
ShiftOf(fresh, adjustments, k) ==
    IF k \notin DOMAIN adjustments \/ k + 2 > Len(fresh) THEN Pt(0, 0)
    ELSE IF IsHorizontalSeg(fresh, k) /\ adjustments[k].offsetY # 0
    THEN Pt(0, adjustments[k].offsetY)
    ELSE IF IsVerticalSeg(fresh, k) /\ adjustments[k].offsetX # 0
    THEN Pt(adjustments[k].offsetX, 0)
    ELSE Pt(0, 0)

(* The fresh points with every surviving adjustment applied and every      *)
(* other adjustment dropped: point j belongs to the segments j - 1 and     *)
(* j - 2 (0-based).                                                        *)
SurvivorsApplied(fresh, adjustments) ==
    [j \in 1..Len(fresh) |->
        Pt(fresh[j].x + ShiftOf(fresh, adjustments, j - 1).x
                      + ShiftOf(fresh, adjustments, j - 2).x,
           fresh[j].y + ShiftOf(fresh, adjustments, j - 1).y
                      + ShiftOf(fresh, adjustments, j - 2).y)]

FreshPathOf(c) == calculatePath(World, conns[c]).pathString

(* C17: when the stored adjustments of a connector are reapplied to its    *)
(* fresh path, an adjustment whose segment is not in the path or has       *)
(* changed orientation changes no point, and every other adjustment is     *)
(* applied.                                                                *)
C17_StaleAdjustmentsDropped ==
    \A c \in SeqToSet(connectors) :
       parsePathSegments(applyWaypointAdjustments(FreshPathOf(c),
                                                  conns[c].waypointAdjustments))
          = SurvivorsApplied(parsePathSegments(FreshPathOf(c)), conns[c].waypointAdjustments)

(* The waypoint controls of connector c are none, or one pair standing on  *)
(* the longest segment strictly between the two stubs of the displayed     *)
(* path, the first of several of the same length.                          *)
OnePairOnLongest(c) ==
    \/ conns[c].waypointCircles = << >>
    \/ /\ Len(conns[c].waypointCircles) = 2
       /\ \A k \in 1..2 :
             conns[c].waypointCircles[k].segmentIndex
                = LongestSegmentIndex(parsePathSegments(conns[c].path))

(* C18: in every reachable state each connector exposes at most one pair   *)
(* of waypoint controls, and the segment the pair controls is the longest  *)
(* segment strictly between the first and the last stub segment, the first *)
(* such segment when several are equally long.                             *)
C18_OnePairOnLongestSegment == \A c \in SeqToSet(connectors) : OnePairOnLongest(c)

SideOf(point) == getBaseDirection(getDirectionFromPoint(point))

(* The resolved end points of the connector record r on the shapes sh.     *)
EndsOn(sh, r) ==
    [from |-> getFixedConnectionPoint(Bounds(sh[r.fromShape]), r.fromPoint),
     to |-> getFixedConnectionPoint(Bounds(sh[r.toShape]), r.toPoint)]

(* The two sides of r are top and bottom, whose relevant axis is x.        *)
JoinsTopBottom(r) == {SideOf(r.fromPoint), SideOf(r.toPoint)} = {"top", "bottom"}

(* The two sides of r are left and right, whose relevant axis is y.        *)
JoinsLeftRight(r) == {SideOf(r.fromPoint), SideOf(r.toPoint)} = {"left", "right"}

(* The end points of r, less than the tolerance apart on the relevant axis *)
(* before the step, are level on that axis after it.                       *)
SnappedLevel(r) ==
    /\ (JoinsTopBottom(r)
          /\ Abs(EndsOn(shapes, r).from.x - EndsOn(shapes, r).to.x) < AlignmentTolerance)
       => EndsOn(shapes', r).from.x = EndsOn(shapes', r).to.x
    /\ (JoinsLeftRight(r)
          /\ Abs(EndsOn(shapes, r).from.y - EndsOn(shapes, r).to.y) < AlignmentTolerance)
       => EndsOn(shapes', r).from.y = EndsOn(shapes', r).to.y

(* The connectors the step has created.                                    *)
Created == SeqToSet(connectors') \ SeqToSet(connectors)

(* C19: when the release of a connector drag joins a top and a bottom      *)
(* side, or a left and a right side, at any handle along those sides, and  *)
(* the two resolved points are less than 30 apart on the relevant axis,    *)
(* the two resolved points are equal on that axis once the release has     *)
(* snapped the shapes and created the connector.                           *)
C19_SnapLevelsResolvedPoints ==
    [][(last'.op = "PointerUp" /\ Len(last'.drags) = 1) =>
          \A c \in Created : SnappedLevel(conns'[c])]_vars

(* The shapes whose geometry the step has changed.                         *)
MovedShapes == {s \in DOMAIN shapes : Bounds(shapes'[s]) # Bounds(shapes[s])}

(* The resolved points, before the step, of a drag started at the handle   *)
(* drag.direction and detected on the side d.toDirection of d.toShape.     *)
DragEnds(drag, d) ==
    [from |-> getFixedConnectionPoint(Bounds(shapes[drag.fromShape]), PointOf(drag.direction)),
     to |-> getFixedConnectionPoint(Bounds(shapes[d.toShape]), PointOf(d.toDirection))]

(* Shape s has been translated by (ddx, ddy) and not resized.              *)
Translated(s, ddx, ddy) ==
    Bounds(shapes'[s]) = [Bounds(shapes[s]) EXCEPT !.left = @ + ddx, !.top = @ + ddy]

(* Every shape the step has moved is the target shape of the drag, is not  *)
(* its source shape, and has been translated on the perpendicular axis by  *)
(* the misalignment of the two resolved points, which join opposite sides  *)
(* and were less than the tolerance apart.                                 *)
OnlyTargetSnapped(drag, d) ==
    \A s \in MovedShapes :
       /\ s = d.toShape
       /\ s # drag.fromShape
       /\ \/ /\ {getBaseDirection(drag.direction), getBaseDirection(d.toDirection)}
                   = {"top", "bottom"}
             /\ Abs(DragEnds(drag, d).from.x - DragEnds(drag, d).to.x) < AlignmentTolerance
             /\ Translated(s, DragEnds(drag, d).from.x - DragEnds(drag, d).to.x, 0)
          \/ /\ {getBaseDirection(drag.direction), getBaseDirection(d.toDirection)}
                   = {"left", "right"}
             /\ Abs(DragEnds(drag, d).from.y - DragEnds(drag, d).to.y) < AlignmentTolerance
             /\ Translated(s, 0, DragEnds(drag, d).from.y - DragEnds(drag, d).to.y)

(* C20: the release of a connector drag moves no shape unless the two      *)
(* directions form an opposite pair and the misalignment is within the     *)
(* tolerance; then it translates only the target shape, by exactly the     *)
(* misalignment and on the perpendicular axis only, and moves neither the  *)
(* source shape nor any other shape.                                       *)
C20_SnapMovesOnlyTarget ==
    [][(last'.op = "PointerUp" /\ Len(last'.drags) = 1) =>
          OnlyTargetSnapped(last'.drags[1],
                            Detect(World, last'.drags[1],
                                   findTarget(World, last'.target), last'.pointer))]_vars

(* The points of the path the orthogonal router returns for the current    *)
(* resolved points of connector c.                                         *)
RouterPathOf(c) ==
    parsePathSegments(
        createOrthogonalPath(Obstacles(World, conns[c]), ResolvedFrom(c), ResolvedTo(c),
                             conns[c].fromPoint, conns[c].toPoint).pathString)

(* All the points lie on one vertical or on one horizontal line.           *)
Straight(pts) ==
    \/ \A i \in 1..Len(pts) : pts[i].x = pts[1].x
    \/ \A i \in 1..Len(pts) : pts[i].y = pts[1].y

(* Connector c joins opposite sides whose resolved points are less than    *)
(* the tolerance apart on the perpendicular axis.                          *)
AlignedOpposite(c) ==
    /\ {conns[c].fromShape, conns[c].toShape} \subseteq LiveShapes(World)
    /\ \/ /\ {FromBase(c), ToBase(c)} = {"top", "bottom"}
          /\ Abs(ResolvedFrom(c).x - ResolvedTo(c).x) < AlignmentTolerance
       \/ /\ {FromBase(c), ToBase(c)} = {"left", "right"}
          /\ Abs(ResolvedFrom(c).y - ResolvedTo(c).y) < AlignmentTolerance

(* C21: for every connector that joins opposite sides whose resolved       *)
(* points are less than the tolerance apart on the perpendicular axis, the *)
(* orthogonal router returns a straight path with no bend.                 *)
C21_AlignedPairRoutedStraight ==
    \A c \in SeqToSet(connectors) : AlignedOpposite(c) => Straight(RouterPathOf(c))

(* C22: in every reachable state the arrowhead of every connector has the  *)
(* angle given by the side of its to-point alone: top 90, right 180,       *)
(* bottom -90, left 0.                                                     *)
C22_ArrowAngleFromTargetSide ==
    \A c \in SeqToSet(connectors) : conns[c].arrow.angle = AngleOf(EndAngle(ToBase(c)))

(* ---------------------------------------------------------------------- *)
(* Geometry kinds                                                          *)
(* ---------------------------------------------------------------------- *)
(* SHAPE_TYPES of the shapes a connector can join.                         *)
ShapeKinds == {"rectangle", "circle", "diamond", "triangle"}

(* The vertices, in doubled coordinates, of the polygon a shape of the     *)
(* kind draws inside its bounds b: createDiamond's four points and the     *)
(* three points of a fabric.Triangle (apex at the middle of the top).      *)
Vertices(kind, b) ==
    CASE kind = "diamond" ->
            <<Pt(2 * b.left + b.width, 2 * b.top),
              Pt(2 * b.left + 2 * b.width, 2 * b.top + b.height),
              Pt(2 * b.left + b.width, 2 * b.top + 2 * b.height),
              Pt(2 * b.left, 2 * b.top + b.height)>>
      [] kind = "triangle" ->
            <<Pt(2 * b.left + b.width, 2 * b.top),
              Pt(2 * b.left + 2 * b.width, 2 * b.top + 2 * b.height),
              Pt(2 * b.left, 2 * b.top + 2 * b.height)>>
      [] OTHER ->
            <<Pt(2 * b.left, 2 * b.top),
              Pt(2 * b.left + 2 * b.width, 2 * b.top),
              Pt(2 * b.left + 2 * b.width, 2 * b.top + 2 * b.height),
              Pt(2 * b.left, 2 * b.top + 2 * b.height)>>

(* Point p lies on the closed segment from a to b.                         *)
OnSegment(p, a, b) ==
    /\ (b.x - a.x) * (p.y - a.y) = (b.y - a.y) * (p.x - a.x)
    /\ (p.x - a.x) * (p.x - b.x) <= 0
    /\ (p.y - a.y) * (p.y - b.y) <= 0

(* Point p lies on the ellipse inscribed in the bounds b.                  *)
OnEllipse(p, b) ==
    (2 * p.x - 2 * b.left - b.width) * (2 * p.x - 2 * b.left - b.width) * b.height * b.height
    + (2 * p.y - 2 * b.top - b.height) * (2 * p.y - 2 * b.top - b.height) * b.width * b.width
    = b.width * b.width * b.height * b.height

(* Point p lies on the outline of the shape of the kind with bounds b.     *)
OnBoundary(kind, b, p) ==
    IF kind = "circle" THEN OnEllipse(p, b)
    ELSE \E i \in 1..Len(Vertices(kind, b)) :
            OnSegment(Pt(2 * p.x, 2 * p.y), Vertices(kind, b)[i],
                      Vertices(kind, b)[(i % Len(Vertices(kind, b))) + 1])

(* C23: for every shape of the diagram, whatever its geometry kind, the    *)
(* resolved connection point of the middle of each of its four sides lies  *)
(* on the outline of the shape.                                            *)
C23_SideMidpointOnBoundary ==
    \A s \in LiveShapes(World) : \A kind \in ShapeKinds : \A side \in BaseDirs :
       OnBoundary(kind, Bounds(shapes[s]),
                  getFixedConnectionPoint(Bounds(shapes[s]), PointMap[side]))

(* Every segment of the polyline is horizontal or vertical.                *)
AxisAligned(pts) ==
    \A i \in 1..(Len(pts) - 1) : pts[i].x = pts[i + 1].x \/ pts[i].y = pts[i + 1].y

(* C24: in every reachable state every segment of the displayed polyline   *)
(* of every connector is horizontal or vertical, its first and last stub   *)
(* segments included.                                                      *)
C24_SegmentsAxisAligned ==
    \A c \in SeqToSet(connectors) : AxisAligned(parsePathSegments(conns[c].path))

(* The connectors of the registry whose source, and whose target, is s.    *)
RegisteredFrom(s) == {c \in SeqToSet(connectors) : conns[c].fromShape = s}

RegisteredTo(s) == {c \in SeqToSet(connectors) : conns[c].toShape = s}

(* C25: in every reachable state a connector is in the outgoing reference  *)
(* list of a shape exactly when it is in the registry with that shape as   *)
(* its source, and in its incoming list exactly when it is in the registry *)
(* with that shape as its target.                                          *)
C25_RegistryMatchesReferences ==
    \A s \in DOMAIN shapes :
       /\ SeqToSet(shapes[s].outgoing) = RegisteredFrom(s)
       /\ SeqToSet(shapes[s].incoming) = RegisteredTo(s)

(* C26: at most one connector drag is pending at a time; a pointer-up      *)
(* creates at most one connector, and after it no drag (its move and up    *)
(* handlers and its preview overlay) is pending any more.                  *)
C26_OneDragSession ==
    [][/\ Len(drags') <= 1
       /\ last'.op = "PointerUp" =>
             /\ Cardinality(Created) <= 1
             /\ drags' = << >>]_vars

(* The saved object o is a text placed where shape s of the same saved     *)
(* state has a connection handle.                                          *)
HandleOf(o, s) ==
    /\ o.k = "text"
    /\ s.k = "shape"
    /\ \E d \in AllDirs :
          /\ HandleAt(0, d, getFixedConnectionPoint(Bounds(s), PointMap[d]),
                      getBaseDirection(d)).left = o.left
          /\ HandleAt(0, d, getFixedConnectionPoint(Bounds(s), PointMap[d]),
                      getBaseDirection(d)).top = o.top

(* The saved state holds a connection handle among its objects.            *)
SavedHandle(state) ==
    \E i, j \in 1..Len(state.objects) : HandleOf(state.objects[i], state.objects[j])

(* C27: the pointer moving over a shape while no drag is pending, and the  *)
(* expiry of the mouse-out timer, which show and hide the connection       *)
(* handles, leave the undo and redo stacks unchanged; and no state on the  *)
(* undo stack holds a connection handle among its objects.                 *)
C27_HandlesNotInHistory ==
    [][/\ (last'.op \in {"PointerMove", "MouseOutTimer"} /\ drags = << >>) =>
             (undoStack' = undoStack /\ redoStack' = redoStack)
       /\ \A i \in 1..Len(undoStack') : ~SavedHandle(undoStack'[i])]_vars

(* C28: an undo records no new history while it restores the state: after  *)
(* it the undo stack is the former one without its top, and the top of the *)
(* redo stack is the state that was current before the undo, so a redo     *)
(* that follows at once restores that state.                               *)
C28_UndoRecordsNoHistory ==
    [][(last'.op = "Undo" /\ currentState # << >>) =>
          /\ undoStack' = SubSeq(undoStack, 1, Len(undoStack) - 1)
          /\ redoStack' # << >>
          /\ Last(redoStack') = currentState[1]]_vars

(* The last two calls of the state manager were saveState(s1) and          *)
(* saveState(s2) with s1 different from s2: s2 is the current state and    *)
(* the top of the undo stack, s1 lies under it.                            *)
SavedTwice ==
    /\ Len(undoStack) >= 2
    /\ currentState = <<Last(undoStack)>>
    /\ undoStack[Len(undoStack) - 1] # Last(undoStack)

(* C29: after saveState(s1) and saveState(s2) with s1 different from s2,   *)
(* undo() returns s1 and makes s1 the current state.                       *)
C29_UndoReturnsPreviousState ==
    SavedTwice => undo(World).currentState = <<undoStack[Len(undoStack) - 1]>>

(* States handed to saveState: the empty canvas, and the oldest state of   *)
(* the undo stack saved once more.                                         *)
SavedAgain ==
    {[objects |-> << >>, connectors |-> << >>]}
    \cup (IF undoStack = << >> THEN {} ELSE {undoStack[1]})

(* The first state ever saved in a diagram: the canvas with its first      *)
(* shape alone.                                                            *)
FirstSaved == addShapeToCanvas(EmptyWorld, Box(0, 0)).undoStack[1]

(* C30: the undo stack never holds more than maxStackSize states, also     *)
(* after a further saveState or redo; and a saveState on a full stack      *)
(* discards the oldest state and puts the saved one on top.                *)
C30_UndoStackBounded ==
    /\ Len(undoStack) <= MaxStackSize
    /\ Len(undo(World).undoStack) <= MaxStackSize
    /\ redoStack # << >> => Len(redo(World).undoStack) <= MaxStackSize
    /\ \A s \in SavedAgain :
          /\ Len(saveState(World, s).undoStack) <= MaxStackSize
          /\ (Len(undoStack) = MaxStackSize /\ currentState # <<s>>) =>
                saveState(World, s).undoStack = Append(Tail(undoStack), s)

(* A shape has been moved, the undo stack is full and the first state ever *)
(* saved is no longer its oldest one.                                      *)
SavedOnFullStack ==
    /\ last.op = "MoveShape"
    /\ Len(undoStack) = MaxStackSize
    /\ currentState = <<Last(undoStack)>>
    /\ undoStack[1] # FirstSaved
====
